---- MODULE Spec2Model ----
(***************************************************************************)
(* A model of the cleanmac scan engine and execution engine.               *)
(*                                                                         *)
(*   SpecScan   the category-scan orchestration: start_scan, the scanner   *)
(*              pool workers, the supervisory thread and the consumer      *)
(*              poll_scan_messages (src/tui/service/scanner.rs), driven   *)
(*              by the category-select and review key handlers.            *)
(*   FairScan   SpecScan with the fairness the thread scheduler gives.     *)
(*   SpecClean  DefaultCleaner::clean (src/cleaner/mod.rs) over a small    *)
(*              filesystem, with the path policy of src/safety.rs.         *)
(***************************************************************************)
EXTENDS Naturals, Sequences, FiniteSets, TLC

VARIABLES
    \* ---- consumer (render loop) state, src/tui/state/app_state.rs
    report,          \* Option<ScanReport>: NoReport or a record
    scan_progress,   \* ScanProgress
    scan_receiver,   \* Option<Receiver<ScanMessage>>: 0 = None, else the session
    mode,            \* AppMode
    enabled,         \* available_scanners[..].enabled, as the set of enabled ids
    \* ---- channel and background threads, src/tui/service/scanner.rs
    chan,            \* messages queued on the channel whose receiver is held
    sessions,        \* number of start_scan calls that created a channel
    jobq,            \* the pool's shared job queue (FIFO)
    running,         \* jobs held by a pool worker, with the worker's position
    completed,       \* per session: the Arc<AtomicUsize> completed_count
    sup,             \* per session: the supervisory thread
    \* ---- observation of the consumer
    rcvLog,          \* what the consumer received on the held channel so far
    waited,          \* a job was submitted while every worker held a job
    accepted,        \* per session and scanner: the Findings its scan accepted,
                     \* each as its id and its position in the scan's Vec
    \* ---- selection on the review screen, src/tui/controller/review.rs
    selected_items,  \* HashSet<String> of the ids of the selected Findings
    chosen,          \* the Findings the user selected and has not deselected
    \* ---- environment of the category scan
    disk,            \* per scanner: candidate paths under its location table
    jobsLeft,        \* scanner jobs the user may still have submitted
    \* ---- execution engine, src/cleaner/mod.rs
    items,           \* the batch handed to clean
    config,          \* CleanConfig
    fs,              \* filesystem: path -> "absent" | "present" | "locked"
    idx,             \* number of batch items processed so far
    result,          \* CleanResult being built
    returned,        \* what clean returned: "none" while it runs
    outcomes,        \* per processed item, what clean did with it
    prev,            \* `outcomes` of the previous clean call
    removed,         \* calls of fs::remove_dir_all / fs::remove_file
    executed,        \* commands handed to sh -c
    logged,          \* calls of HistoryLogger::log_delete
    runs,            \* number of clean calls finished before this one
    exec,            \* the ExecutionResult run_apply built from `result`
    \* ---- directory-usage explorer, src/tui/state/space_lens.rs
    current_path,    \* SpaceLensState.current_path
    entries,         \* SpaceLensState.entries: the live listing
    lens_total_size, \* SpaceLensState.total_size
    loading,         \* SpaceLensState.loading
    cache,           \* SpaceLensState.cache: path -> NoCache or a CachedScan
    pending_scans,   \* SpaceLensState.pending_scans: path -> channel, 0 = none
    parallel_scan,   \* SpaceLensState.parallel_scan
    delete_mode,     \* SpaceLensState.delete_mode
    pending_delete,  \* SpaceLensState.pending_delete: NoEntry or a FolderEntry
    unlinked,        \* the paths removed from the explored tree
    \* ---- channels and background threads, src/tui/service/disk.rs
    lchans,          \* per channel: queued messages, live senders, receiver held
    nchans,          \* number of channels created by start_space_scan
    ljobq,           \* the job queue of the 4-worker directory-usage pool
    lworkers,        \* jobs held by a pool worker, with the worker's position
    active_threads,  \* ACTIVE_THREADS_4, the counter of the 4-worker bucket
    lthreads,        \* the dedicated threads of single-threaded mode
    \* ---- observation of the explorer
    hist,            \* the navigation keys pressed since the explorer opened
    stayed,          \* how the last start_space_scan ended, the channel it created
                     \* and whether that scan completed with the user staying
    \* ---- one scanner unit (Scanner::scan called directly)
    files,           \* the regular files under the duplicate finder's search paths
    scan_config,     \* ScanConfig: min_size, excluded_paths
    unit,            \* the scanner whose scan is running or has returned
    upc,             \* position in scan: "idle", "hash", "group", "done"
    size_map,        \* DuplicatesScanner::scan: size -> paths
    hash_map,        \* DuplicatesScanner::scan: "size:hash" -> paths
    keys_left,       \* keys of hash_map the last loop has not visited
    group_id,        \* DuplicatesScanner::scan: group counter
    unit_items,      \* the Vec<ScanResult> the scan builds and returns
    streamed         \* Findings passed to report_item, in order

scanVars  == <<report, scan_progress, scan_receiver, mode, enabled, chan, sessions,
               jobq, running, completed, sup, rcvLog, waited, disk, jobsLeft,
                   accepted, selected_items, chosen>>
cleanVars == <<items, config, fs, idx, result, returned, outcomes, prev, removed,
               executed, logged, runs, exec>>
lensVars  == <<current_path, entries, lens_total_size, loading, cache, pending_scans,
               parallel_scan, lchans, nchans, ljobq, lworkers, active_threads, lthreads,
               hist, stayed, delete_mode, pending_delete, unlinked>>
unitVars  == <<files, scan_config, unit, upc, size_map, hash_map, keys_left, group_id,
               unit_items, streamed>>
vars      == <<scanVars, cleanVars, lensVars, unitVars>>

(***************************************************************************)
(* Bounds                                                                  *)
(***************************************************************************)
MaxSessions == 2      \* start_scan calls that create a session
MaxJobs     == 2      \* scanner jobs submitted over all sessions (SpecScan)
MaxPoolJobs == 6      \* scanner jobs submitted over all sessions (FairScan)
MaxBusyJobs == 5      \* scanner jobs submitted over all sessions (SpecBusy)
MaxQueued   == 1      \* messages waiting on the session channel (SpecBusy, FairPools)
MaxItems    == 1      \* Findings one scan streams
MaxItemSize == 2      \* byte size of a Finding
MaxBatch    == 2      \* Findings in one clean batch
MaxRuns     == 2      \* clean calls in a row over the same filesystem
MaxNav      == 4      \* navigation keys pressed in the directory-usage explorer
MaxChans    == 3      \* directory scans started by start_space_scan
MaxModified == 2      \* modification times of the duplicate finder's files

(***************************************************************************)
(* Category scan: data                                                     *)
(***************************************************************************)
DEFAULT_POOL_SIZE == 4

\* Option::None for the report.
NoReport == [none |-> TRUE]

\* The (id, scanner, category) table of start_scan, in its order; the first
\* five of the thirteen rows: variants that stream Findings with report_item
\* and report_progress, and variants that stream nothing.
all_scanners == <<"system_caches", "system_logs", "trash", "browser_caches", "dev_junk">>

\* The rows of the table.
TableIds == {all_scanners[i] : i \in 1..Len(all_scanners)}

\* The rows whose switches the user operates on the category-select screen;
\* the others stay as the configuration set them.
ScannerIds == {"system_caches", "system_logs", "trash"}

\* Scanner::name of the scanner of a row.
ScannerName(id) ==
    CASE id = "system_caches"  -> "System Caches"
      [] id = "system_logs"    -> "System Logs"
      [] id = "trash"          -> "Trash"
      [] id = "browser_caches" -> "Browser Caches"
      [] id = "dev_junk"       -> "Development Junk"

\* Scanner::id of the scanner of a row.
ScannerId(id) == IF id = "browser_caches" THEN "browser_cache" ELSE id

ScannerCategoryOf(id) ==
    CASE id = "system_caches"  -> "System"
      [] id = "system_logs"    -> "System"
      [] id = "trash"          -> "Trash"
      [] id = "browser_caches" -> "Browser"
      [] id = "dev_junk"       -> "Development"

\* A variant calls config.report_item for each Finding it accepts, or never.
Streams(id) == id \in {"system_caches", "trash", "dev_junk"}

\* The id of the Finding a variant builds after n others:
\* format!("cache_{}", items.len()), and the one Finding of the trash.
ItemId(id, n) ==
    CASE id = "system_caches"  -> "cache_" \o ToString(n)
      [] id = "system_logs"    -> "log_" \o ToString(n)
      [] id = "trash"          -> "trash_main"
      [] id = "browser_caches" -> "browser_chrome"
      [] id = "dev_junk"       -> "dev_target_" \o ToString(n)

\* The outcomes of Scanner::scan that the worker discards.
ScanReturns(id) == IF id = "system_logs" THEN {"Ok", "Err"} ELSE {"Ok"}

ItemSizes == 1..MaxItemSize

RECURSIVE SumSizes(_)
SumSizes(s) == IF s = <<>> THEN 0 ELSE Head(s).size + SumSizes(Tail(s))

\* CategoryScanResult::total_size
total_size(cat) == SumSizes(cat.items)

RECURSIVE SumCatSizes(_)
SumCatSizes(cats) ==
    IF cats = <<>> THEN 0 ELSE total_size(Head(cats)) + SumCatSizes(Tail(cats))

RECURSIVE SumCatItems(_)
SumCatItems(cats) ==
    IF cats = <<>> THEN 0 ELSE Len(Head(cats).items) + SumCatItems(Tail(cats))

\* Vec::retain
RECURSIVE Retain(_, _)
Retain(cats, ids) ==
    IF cats = <<>> THEN <<>>
    ELSE IF Head(cats).scanner_id \in ids
         THEN Retain(Tail(cats), ids)
         ELSE <<Head(cats)>> \o Retain(Tail(cats), ids)

\* u64::saturating_sub
saturating_sub(a, b) == IF a >= b THEN a - b ELSE 0

\* Position of the first category with this scanner_id, 0 when there is none.
FindCat(cats, sid) ==
    IF \E i \in 1..Len(cats) : cats[i].scanner_id = sid
    THEN CHOOSE i \in 1..Len(cats) :
            /\ cats[i].scanner_id = sid
            /\ \A j \in 1..(i - 1) : cats[j].scanner_id # sid
    ELSE 0

\* all_scanners filtered by enabled_ids, in table order.
RECURSIVE FilterScanners(_, _)
FilterScanners(tab, ids) ==
    IF tab = <<>> THEN <<>>
    ELSE IF Head(tab) \in ids
         THEN <<Head(tab)>> \o FilterScanners(Tail(tab), ids)
         ELSE FilterScanners(Tail(tab), ids)

DefaultProgress ==
    [current_scanner |-> "", current_path |-> "None", scanners_done |-> 0,
     total_scanners |-> 0, active_scanners |-> 0]

IdleSup == [pc |-> "idle", todo |-> <<>>, scanners |-> <<>>]

\* Nothing received yet on the channel of session s: `started` and `done`
\* are the sets of scanners whose ScannerStart and ScannerDone were received,
\* `misordered` the scanners of which a message arrived out of turn, `peak`
\* the largest number of scanners started and not done at any one message,
\* `complete` tells whether ScanComplete was received, and `doneAtComplete`
\* is `done` as it was at that moment.
NothingSeen(s) ==
    [session |-> s, started |-> {}, done |-> {}, misordered |-> {}, peak |-> 0,
     complete |-> FALSE, doneAtComplete |-> {}]

\* No scan has accepted a Finding.
NoneAccepted == [s \in 1..MaxSessions |-> [id \in TableIds |-> {}]]

\* The state after App::new, before any key press.
InitApp ==
    /\ report = NoReport
    /\ scan_progress = DefaultProgress
    /\ scan_receiver = 0
    /\ mode = "CategorySelect"
    /\ enabled = ScannerIds
    /\ chan = <<>>
    /\ sessions = 0
    /\ jobq = <<>>
    /\ running = {}
    /\ completed = [s \in 1..MaxSessions |-> 0]
    /\ sup = [s \in 1..MaxSessions |-> IdleSup]
    /\ rcvLog = NothingSeen(0)
    /\ waited = FALSE

\* cache.get(path) is None.
NoCache == [none |-> TRUE]

\* Option<FolderEntry>::None
NoEntry == [none |-> TRUE]

\* The paths of the explored tree: a file A and a directory C with two files.
LensPaths ==
    {"/", "/C", "/C/f1", "/C/f2",
     "/B", "/B/b1", "/B/b2", "/B/b3", "/B/b4", "/B/b5"}

\* SpaceLensState::default, no explorer thread started.
LensIdle ==
    /\ current_path = "/"
    /\ entries = <<>>
    /\ lens_total_size = 0
    /\ loading = FALSE
    /\ cache = [p \in LensPaths |-> NoCache]
    /\ pending_scans = [p \in LensPaths |-> 0]
    /\ parallel_scan = TRUE
    /\ lchans = <<>>
    /\ nchans = 0
    /\ ljobq = <<>>
    /\ lworkers = {}
    /\ active_threads = 0
    /\ lthreads = {}
    /\ hist = <<>>
    /\ stayed = [chan |-> 0, done |-> FALSE, how |-> "none", other |-> {},
                 deleted |-> {}]
    /\ delete_mode = "Browse"
    /\ pending_delete = NoEntry
    /\ unlinked = {}

\* The regular files WalkDir yields under the duplicate finder's search paths
\* (~/Documents, ~/Downloads, ...), in walk order.
DupPaths ==
    <<"/Users/u/Documents/a", "/Users/u/Documents/b", "/Users/u/Documents/.d",
      "/Users/u/Downloads/c", "/Users/u/Downloads/e">>

DupPathSet == {DupPaths[i] : i \in 1..Len(DupPaths)}

\* A path that does not exist.
NoFile == [none |-> TRUE]

\* File contents, and metadata.len() of a file with that content.
Contents == {"x", "y", "z"}

ContentLen(c) == IF c = "x" THEN 512 ELSE 2048

\* No scanner unit is running and none has run.
UnitIdle ==
    /\ files = [p \in DupPathSet |-> NoFile]
    /\ scan_config = [min_size |-> 1048576, excluded_paths |-> {}]
    /\ unit = "none"
    /\ upc = "idle"
    /\ size_map = <<>>
    /\ hash_map = <<>>
    /\ keys_left = {}
    /\ group_id = 0
    /\ unit_items = <<>>
    /\ streamed = <<>>

\* Option::None for the ExecutionResult.
NoExec == [none |-> TRUE]

\* DefaultCleaner::clean is not running.
CleanIdle ==
    /\ items = <<>>
    /\ config = [dry_run |-> TRUE, log_history |-> TRUE]
    /\ fs = <<>>
    /\ idx = 0
    /\ result = <<>>
    /\ returned = "none"
    /\ outcomes = <<>>
    /\ prev = <<>>
    /\ removed = <<>>
    /\ executed = <<>>
    /\ logged = <<>>
    /\ runs = 0
    /\ exec = NoExec

\* SpecScan: the scanners' locations hold up to MaxItems candidate paths.
InitScan ==
    /\ InitApp
    /\ disk = [id \in ScannerIds |-> IF Streams(id) THEN MaxItems ELSE 0]
    /\ jobsLeft = MaxJobs
    /\ accepted = NoneAccepted
    /\ selected_items = {}
    /\ chosen = {}
    /\ CleanIdle
    /\ LensIdle
    /\ UnitIdle

\* SpecBusy: every row of the table is enabled, more rows than the pool has
\* workers, and the scanners' locations are empty.
InitBusy ==
    /\ report = NoReport
    /\ scan_progress = DefaultProgress
    /\ scan_receiver = 0
    /\ mode = "CategorySelect"
    /\ enabled = TableIds
    /\ chan = <<>>
    /\ sessions = 0
    /\ jobq = <<>>
    /\ running = {}
    /\ completed = [s \in 1..MaxSessions |-> 0]
    /\ sup = [s \in 1..MaxSessions |-> IdleSup]
    /\ rcvLog = NothingSeen(0)
    /\ waited = FALSE
    /\ disk = [id \in TableIds |-> 0]
    /\ jobsLeft = MaxBusyJobs
    /\ accepted = NoneAccepted
    /\ selected_items = {}
    /\ chosen = {}
    /\ CleanIdle
    /\ LensIdle
    /\ UnitIdle

\* FairScan: the scanners' locations are empty.
InitPool ==
    /\ InitApp
    /\ disk = [id \in ScannerIds |-> 0]
    /\ jobsLeft = MaxPoolJobs
    /\ accepted = NoneAccepted
    /\ selected_items = {}
    /\ chosen = {}
    /\ CleanIdle
    /\ LensIdle
    /\ UnitIdle


(***************************************************************************)
(* Category scan: start_scan                                               *)
(***************************************************************************)
\* The report branch of start_scan: drop the categories being re-scanned
\* and subtract what they held, or create an empty report.
ReportAfterRemove_NoSubtract(rep, ids) ==
    IF rep # NoReport
    THEN [rep EXCEPT !.categories = Retain(rep.categories, ids)]
    ELSE [categories |-> <<>>, total_size |-> 0, total_items |-> 0]

ReportAfterRemove(rep, ids) ==
    IF rep # NoReport
    THEN LET gone == SelectSeq(rep.categories, LAMBDA c : c.scanner_id \in ids)
             removed_size  == SumCatSizes(gone)
             removed_items == SumCatItems(gone)
         IN  [categories  |-> Retain(rep.categories, ids),
              total_size  |-> saturating_sub(rep.total_size, removed_size),
              total_items |-> saturating_sub(rep.total_items, removed_items)]
    ELSE [categories |-> <<>>, total_size |-> 0, total_items |-> 0]

\* tx.send on the channel of session s: the message is queued while the
\* consumer holds that receiver and is lost once the receiver is dropped.
Send_AnyReceiver(s, m) ==
    IF scan_receiver # 0 THEN chan' = Append(chan, m) ELSE chan' = chan

Send(s, m) == IF scan_receiver = s THEN chan' = Append(chan, m) ELSE chan' = chan

\* start_scan with params.report = rep and params.enabled_scanner_ids = ids.
start_scan(rep, ids) ==
    IF ids = {}
    THEN /\ report' = rep
         /\ UNCHANGED <<scan_progress, scan_receiver, mode, chan, sessions, sup,
                        completed, rcvLog, jobsLeft>>
    ELSE /\ sessions < MaxSessions
         /\ Cardinality(ids) <= jobsLeft
         /\ jobsLeft' = jobsLeft - Cardinality(ids)
         /\ sessions' = sessions + 1
         /\ report' = ReportAfterRemove(rep, ids)
         /\ scan_progress' = [current_scanner |-> "Initializing...",
                              current_path |-> "None",
                              scanners_done |-> 0,
                              total_scanners |-> Cardinality(ids),
                              active_scanners |-> 0]
         /\ scan_receiver' = sessions + 1
         /\ chan' = <<>>
         /\ rcvLog' = NothingSeen(sessions + 1)
         /\ mode' = "Review"
         /\ LET scanners == FilterScanners(all_scanners, ids)
            IN  sup' = [sup EXCEPT ![sessions + 1] =
                          [pc |-> IF scanners = <<>> THEN "wait" ELSE "submit",
                           todo |-> scanners, scanners |-> scanners]]
         /\ completed' = [completed EXCEPT ![sessions + 1] = 0]

(***************************************************************************)
(* Key handlers of the category-select and review screens                  *)
(***************************************************************************)
\* ' ' on the scanner under the cursor (the cursor is moved with Up/Down).
CategorySelectToggle(id) ==
    /\ mode = "CategorySelect"
    /\ enabled' = IF id \in enabled THEN enabled \ {id} ELSE enabled \cup {id}
    /\ UNCHANGED <<report, scan_progress, scan_receiver, mode, chan, sessions,
                   jobq, running, completed, sup, rcvLog, waited, disk, jobsLeft,
                   accepted, selected_items, chosen>>

\* 'a' / 'n': enable or disable every scanner.
CategorySelectAll(on) ==
    /\ mode = "CategorySelect"
    /\ enabled' = IF on THEN ScannerIds ELSE {}
    /\ enabled' # enabled
    /\ UNCHANGED <<report, scan_progress, scan_receiver, mode, chan, sessions,
                   jobq, running, completed, sup, rcvLog, waited, disk, jobsLeft,
                   accepted, selected_items, chosen>>

\* Enter / Tab: to the review screen when the report has a category.
CategorySelectEnter ==
    /\ mode = "CategorySelect"
    /\ report # NoReport
    /\ report.categories # <<>>
    /\ mode' = "Review"
    /\ UNCHANGED <<report, scan_progress, scan_receiver, enabled, chan, sessions,
                   jobq, running, completed, sup, rcvLog, waited, disk, jobsLeft,
                   accepted, selected_items, chosen>>

\* 'r' on the category-select screen.
CategorySelectRescan ==
    /\ mode = "CategorySelect"
    /\ start_scan(report, enabled)
    /\ UNCHANGED <<enabled, jobq, running, waited, disk, accepted, selected_items, chosen>>

\* 'r' on the review screen: the selection is cleared and the report is
\* discarded before start_scan.
ReviewRescan ==
    /\ mode = "Review"
    /\ selected_items' = {}
    /\ chosen' = {}
    /\ start_scan(NoReport, enabled)
    /\ UNCHANGED <<enabled, jobq, running, waited, disk, accepted>>

\* Esc / Tab on the review screen.
ReviewEsc ==
    /\ mode = "Review"
    /\ mode' = "CategorySelect"
    /\ UNCHANGED <<report, scan_progress, scan_receiver, enabled, chan, sessions,
                   jobq, running, completed, sup, rcvLog, waited, disk, jobsLeft,
                   accepted, selected_items, chosen>>

(***************************************************************************)
(* The supervisory thread of a session                                     *)
(***************************************************************************)
\* pool.submit of the next scanner of the session.
SupervisorSubmit(s) ==
    /\ sup[s].pc = "submit"
    /\ jobq' = Append(jobq, [session |-> s, scanner |-> Head(sup[s].todo)])
    /\ sup' = [sup EXCEPT ![s].todo = Tail(@),
                          ![s].pc = IF Tail(sup[s].todo) = <<>> THEN "wait" ELSE "submit"]
    /\ waited' = (waited \/ Cardinality(running) = DEFAULT_POOL_SIZE)
    /\ UNCHANGED <<report, scan_progress, scan_receiver, mode, enabled, chan,
                   sessions, running, completed, rcvLog, disk, jobsLeft,
                   accepted, selected_items, chosen>>

\* The test of the supervisory loop: completed_count.load() >= total.
AllCompleted_OneShort(s) == completed[s] + 1 >= Len(sup[s].scanners)

AllCompleted(s) == completed[s] >= Len(sup[s].scanners)

\* The loop exits and ScanComplete is sent.
SupervisorComplete(s) ==
    /\ sup[s].pc = "wait"
    /\ AllCompleted(s)
    /\ Send(s, [type |-> "ScanComplete"])
    /\ sup' = [sup EXCEPT ![s].pc = "done"]
    /\ UNCHANGED <<report, scan_progress, scan_receiver, mode, enabled, sessions,
                   jobq, running, completed, rcvLog, waited, disk, jobsLeft,
                   accepted, selected_items, chosen>>

(***************************************************************************)
(* The pool workers.  Workers are interchangeable: `running` holds the     *)
(* jobs taken and where the worker holding each stands.                    *)
(***************************************************************************)
\* Receiver::try_recv / recv returning Ok(job): the queue without its head.
Dequeue_Peek(q) == q

Dequeue(q) == Tail(q)

\* rx.lock(); rx.try_recv() by an idle worker.
WorkerTake ==
    /\ jobq # <<>>
    /\ Cardinality(running) < DEFAULT_POOL_SIZE
    /\ running' = running \cup
           {[session |-> Head(jobq).session, scanner |-> Head(jobq).scanner,
             pc |-> "taken", visited |-> 0, found |-> 0, ret |-> "None"]}
    /\ jobq' = Dequeue(jobq)
    /\ UNCHANGED <<report, scan_progress, scan_receiver, mode, enabled, chan,
                   sessions, completed, sup, rcvLog, waited, disk, jobsLeft,
                   accepted, selected_items, chosen>>

Step(j, j2) == running' = (running \ {j}) \cup {j2}

\* tx.send(ScannerStart)
WorkerSendStart_Silent(j) ==
    /\ j.pc = "taken"
    /\ chan' = chan
    /\ Step(j, [j EXCEPT !.pc = "scan"])
    /\ UNCHANGED <<report, scan_progress, scan_receiver, mode, enabled, sessions,
                   jobq, completed, sup, rcvLog, waited, disk, jobsLeft,
                   accepted, selected_items, chosen>>

WorkerSendStart(j) ==
    /\ j.pc = "taken"
    /\ Send(j.session, [type |-> "ScannerStart", name |-> ScannerName(j.scanner)])
    /\ Step(j, [j EXCEPT !.pc = "scan"])
    /\ UNCHANGED <<report, scan_progress, scan_receiver, mode, enabled, sessions,
                   jobq, completed, sup, rcvLog, waited, disk, jobsLeft,
                   accepted, selected_items, chosen>>

CandidatePath(id) ==
    CASE id = "system_caches" -> "~/Library/Caches/c"
      [] id = "system_logs"   -> "~/Library/Logs/l"
      [] id = "trash"         -> "~/.Trash/t"
      [] id = "browser_caches" -> "~/Library/Caches/Google/Chrome"
      [] id = "dev_junk"       -> "~/Projects/**/target"

\* The path of the n-th candidate a scan visits under its location.
FindingPath(id, n) == CandidatePath(id) \o "/" \o ToString(n)

\* scan visits a candidate: config.report_progress(path).  The candidate is
\* then accepted (its size reaches min_size) or passed over.
WorkerReportProgress(j) ==
    /\ j.pc = "scan"
    /\ Streams(j.scanner)
    /\ j.visited < disk[j.scanner]
    /\ Send(j.session, [type |-> "ScanningPath", path |-> CandidatePath(j.scanner)])
    /\ \E accept \in BOOLEAN :
         Step(j, [j EXCEPT !.pc = IF accept THEN "visit" ELSE "scan",
                           !.visited = @ + 1])
    /\ UNCHANGED <<report, scan_progress, scan_receiver, mode, enabled, sessions,
                   jobq, completed, sup, rcvLog, waited, disk, jobsLeft,
                   accepted, selected_items, chosen>>

\* The item callback of start_scan: the scanner_id is read from the metadata.
ItemMessage(item) ==
    [type |-> "ItemFound", scanner_id |-> item.scanner_id, item |-> item]

\* items.push(item) in the scan of job j: one more accepted Finding.
Accept(acc, j) ==
    [acc EXCEPT ![j.session][j.scanner] =
                    @ \cup {[id |-> ItemId(j.scanner, j.found), n |-> j.found]}]

\* The accepted candidate is reported: config.report_item(item).
WorkerReportItem(j) ==
    /\ j.pc = "visit"
    /\ \E sz \in ItemSizes :
         Send(j.session,
              ItemMessage([id |-> ItemId(j.scanner, j.found),
                           path |-> FindingPath(j.scanner, j.visited),
                           size |-> sz, scanner_id |-> j.scanner]))
    /\ Step(j, [j EXCEPT !.pc = "scan", !.found = @ + 1])
    /\ accepted' = Accept(accepted, j)
    /\ UNCHANGED <<report, scan_progress, scan_receiver, mode, enabled, sessions,
                   jobq, completed, sup, rcvLog, waited, disk, jobsLeft,
                   selected_items, chosen>>

\* A scan that calls neither report_progress nor report_item visits a
\* candidate: it is pushed on the Vec the scan returns, or passed over.
WorkerCollect(j) ==
    /\ j.pc = "scan"
    /\ ~Streams(j.scanner)
    /\ j.visited < disk[j.scanner]
    /\ \E accept \in BOOLEAN :
         IF accept
         THEN /\ Step(j, [j EXCEPT !.visited = @ + 1, !.found = @ + 1])
              /\ accepted' = Accept(accepted, j)
         ELSE /\ Step(j, [j EXCEPT !.visited = @ + 1])
              /\ accepted' = accepted
    /\ UNCHANGED <<report, scan_progress, scan_receiver, mode, enabled, chan,
                   sessions, jobq, completed, sup, rcvLog, waited, disk, jobsLeft,
                   selected_items, chosen>>

\* scanner.scan returns (its result is discarded); tx.send(ScannerDone).
WorkerSendDone(j) ==
    /\ j.pc = "scan"
    /\ \E r \in ScanReturns(j.scanner) : Step(j, [j EXCEPT !.pc = "sent", !.ret = r])
    /\ Send(j.session, [type |-> "ScannerDone", scanner_id |-> ScannerId(j.scanner),
                        name |-> ScannerName(j.scanner),
                        category |-> ScannerCategoryOf(j.scanner)])
    /\ UNCHANGED <<report, scan_progress, scan_receiver, mode, enabled, sessions,
                   jobq, completed, sup, rcvLog, waited, disk, jobsLeft,
                   accepted, selected_items, chosen>>

\* completed.fetch_add(1)
CountJob_OnlyOk(j) == IF j.ret = "Ok" THEN completed[j.session] + 1
                      ELSE completed[j.session]

CountJob(j) == completed[j.session] + 1

WorkerFetchAdd(j) ==
    /\ j.pc = "sent"
    /\ completed' = [completed EXCEPT ![j.session] = CountJob(j)]
    /\ running' = running \ {j}
    /\ UNCHANGED <<report, scan_progress, scan_receiver, mode, enabled, chan,
                   sessions, jobq, sup, rcvLog, waited, disk, jobsLeft,
                   accepted, selected_items, chosen>>

(***************************************************************************)
(* The consumer: poll_scan_messages                                        *)
(***************************************************************************)
\* The ItemFound arm.
ApplyItemFound(rep, sid, item) ==
    LET k == FindCat(rep.categories, sid)
        r == [rep EXCEPT !.total_size = @ + item.size, !.total_items = @ + 1]
    IN  IF k # 0
        THEN [r EXCEPT !.categories[k].items = Append(@, item)]
        ELSE [r EXCEPT !.categories = Append(@,
                 [scanner_id |-> sid, name |-> sid, category |-> "System",
                  items |-> <<item>>])]

\* The ScannerDone arm on the report.
ApplyScannerDone(rep, m) ==
    LET k == FindCat(rep.categories, m.scanner_id)
    IN  IF k # 0
        THEN [rep EXCEPT !.categories[k].name = m.name,
                         !.categories[k].category = m.category]
        ELSE rep

\* The ScannerDone arm on the progress counters.
ProgressAfterDone_StillActive(pr) ==
    [pr EXCEPT !.scanners_done = @ + 1, !.current_path = "None"]

ProgressAfterDone(pr) ==
    [pr EXCEPT !.scanners_done = @ + 1,
               !.active_scanners = saturating_sub(@, 1),
               !.current_path = "None"]

\* One iteration of the while-let loop; st = [report, progress, complete].
ApplyMessage(st, m) ==
    CASE m.type = "ScannerStart" ->
           [st EXCEPT !.progress.current_scanner = m.name,
                      !.progress.active_scanners = @ + 1]
      [] m.type = "ScanningPath" ->
           [st EXCEPT !.progress.current_path = m.path]
      [] m.type = "ItemFound" ->
           IF st.report # NoReport
           THEN [st EXCEPT !.report = ApplyItemFound(st.report, m.scanner_id, m.item)]
           ELSE st
      [] m.type = "ScannerDone" ->
           [st EXCEPT !.report = IF @ # NoReport THEN ApplyScannerDone(@, m) ELSE @,
                      !.progress = ProgressAfterDone(@)]
      [] m.type = "ScanComplete" ->
           [st EXCEPT !.complete = TRUE]

RECURSIVE Drain(_, _)
Drain(st, q) == IF q = <<>> THEN st ELSE Drain(ApplyMessage(st, Head(q)), Tail(q))

\* The scanner whose ScannerStart carries this name.
ScannerOfName(name) == CHOOSE id \in TableIds : ScannerName(id) = name

\* What the consumer records of a message.
Seen(log, m) ==
    CASE m.type = "ScannerStart" ->
           LET id == ScannerOfName(m.name)
           IN  [log EXCEPT !.started = @ \cup {id},
                           !.peak = IF Cardinality((log.started \cup {id}) \ log.done) > @
                                    THEN Cardinality((log.started \cup {id}) \ log.done)
                                    ELSE @,
                           !.misordered = IF id \in log.started \cup log.done
                                          THEN @ \cup {id} ELSE @]
      [] m.type = "ItemFound" ->
           [log EXCEPT !.misordered =
                IF m.scanner_id \notin log.started \/ m.scanner_id \in log.done
                THEN @ \cup {m.scanner_id} ELSE @]
      [] m.type = "ScannerDone" ->
           LET id == ScannerOfName(m.name)
           IN  [log EXCEPT !.done = @ \cup {id},
                           !.misordered = IF id \notin log.started \/ id \in log.done
                                          THEN @ \cup {id} ELSE @]
      [] m.type = "ScanComplete" ->
           [log EXCEPT !.complete = TRUE, !.doneAtComplete = log.done]
      [] OTHER -> log

RECURSIVE SeenAll(_, _)
SeenAll(log, q) == IF q = <<>> THEN log ELSE SeenAll(Seen(log, Head(q)), Tail(q))

\* poll_scan_messages: every queued message is taken; the receiver is put
\* back unless ScanComplete was among them.
poll_scan_messages ==
    /\ scan_receiver # 0
    /\ chan # <<>>
    /\ LET st == Drain([report |-> report, progress |-> scan_progress,
                        complete |-> FALSE], chan)
       IN  /\ report' = st.report
           /\ scan_progress' = st.progress
           /\ scan_receiver' = IF st.complete THEN 0 ELSE scan_receiver
    /\ rcvLog' = SeenAll(rcvLog, chan)
    /\ chan' = <<>>
    /\ UNCHANGED <<mode, enabled, sessions, jobq, running, completed, sup, waited,
                   disk, jobsLeft,
                   accepted, selected_items, chosen>>

(***************************************************************************)
(* Specifications of the category scan                                     *)
(***************************************************************************)
NextScan ==
    \/ (\E id \in ScannerIds : CategorySelectToggle(id)) /\ UNCHANGED <<cleanVars, lensVars, unitVars>>
    \/ (\E on \in BOOLEAN : CategorySelectAll(on)) /\ UNCHANGED <<cleanVars, lensVars, unitVars>>
    \/ CategorySelectEnter /\ UNCHANGED <<cleanVars, lensVars, unitVars>>
    \/ CategorySelectRescan /\ UNCHANGED <<cleanVars, lensVars, unitVars>>
    \/ ReviewRescan /\ UNCHANGED <<cleanVars, lensVars, unitVars>>
    \/ ReviewEsc /\ UNCHANGED <<cleanVars, lensVars, unitVars>>
    \/ (\E s \in 1..MaxSessions : SupervisorSubmit(s)) /\ UNCHANGED <<cleanVars, lensVars, unitVars>>
    \/ (\E s \in 1..MaxSessions : SupervisorComplete(s)) /\ UNCHANGED <<cleanVars, lensVars, unitVars>>
    \/ WorkerTake /\ UNCHANGED <<cleanVars, lensVars, unitVars>>
    \/ (\E j \in running : WorkerSendStart(j)) /\ UNCHANGED <<cleanVars, lensVars, unitVars>>
    \/ (\E j \in running : WorkerReportProgress(j)) /\ UNCHANGED <<cleanVars, lensVars, unitVars>>
    \/ (\E j \in running : WorkerReportItem(j)) /\ UNCHANGED <<cleanVars, lensVars, unitVars>>
    \/ (\E j \in running : WorkerSendDone(j)) /\ UNCHANGED <<cleanVars, lensVars, unitVars>>
    \/ (\E j \in running : WorkerFetchAdd(j)) /\ UNCHANGED <<cleanVars, lensVars, unitVars>>
    \/ poll_scan_messages /\ UNCHANGED <<cleanVars, lensVars, unitVars>>

SpecScan == InitScan /\ [][NextScan]_vars

\* Every scanned location holds up to MaxItems candidates, those of the
\* scanners that only return their Findings included.
InitFound ==
    /\ InitApp
    /\ disk = [id \in ScannerIds |-> MaxItems]
    /\ jobsLeft = MaxJobs
    /\ accepted = NoneAccepted
    /\ selected_items = {}
    /\ chosen = {}
    /\ CleanIdle
    /\ LensIdle
    /\ UnitIdle

NextFound ==
    \/ (\E id \in ScannerIds : CategorySelectToggle(id)) /\ UNCHANGED <<cleanVars, lensVars, unitVars>>
    \/ (\E on \in BOOLEAN : CategorySelectAll(on)) /\ UNCHANGED <<cleanVars, lensVars, unitVars>>
    \/ CategorySelectEnter /\ UNCHANGED <<cleanVars, lensVars, unitVars>>
    \/ CategorySelectRescan /\ UNCHANGED <<cleanVars, lensVars, unitVars>>
    \/ ReviewRescan /\ UNCHANGED <<cleanVars, lensVars, unitVars>>
    \/ ReviewEsc /\ UNCHANGED <<cleanVars, lensVars, unitVars>>
    \/ (\E s \in 1..MaxSessions : SupervisorSubmit(s)) /\ UNCHANGED <<cleanVars, lensVars, unitVars>>
    \/ (\E s \in 1..MaxSessions : SupervisorComplete(s)) /\ UNCHANGED <<cleanVars, lensVars, unitVars>>
    \/ WorkerTake /\ UNCHANGED <<cleanVars, lensVars, unitVars>>
    \/ (\E j \in running : WorkerSendStart(j)) /\ UNCHANGED <<cleanVars, lensVars, unitVars>>
    \/ (\E j \in running : WorkerReportProgress(j)) /\ UNCHANGED <<cleanVars, lensVars, unitVars>>
    \/ (\E j \in running : WorkerReportItem(j)) /\ UNCHANGED <<cleanVars, lensVars, unitVars>>
    \/ (\E j \in running : WorkerCollect(j)) /\ UNCHANGED <<cleanVars, lensVars, unitVars>>
    \/ (\E j \in running : WorkerSendDone(j)) /\ UNCHANGED <<cleanVars, lensVars, unitVars>>
    \/ (\E j \in running : WorkerFetchAdd(j)) /\ UNCHANGED <<cleanVars, lensVars, unitVars>>
    \/ poll_scan_messages /\ UNCHANGED <<cleanVars, lensVars, unitVars>>

SpecFound == InitFound /\ [][NextFound]_vars

(***************************************************************************)
(* Selection and confirmation on the review screen                         *)
(***************************************************************************)
MaxCandidates == 2    \* candidate paths under the cache location (SpecSelect)

\* Every Finding of the report, category after category.
RECURSIVE AllItems(_)
AllItems(cats) == IF cats = <<>> THEN <<>> ELSE Head(cats).items \o AllItems(Tail(cats))

\* ' ' on the review screen with the cursor on item i of category c:
\* toggle_selection on the id of the focused Finding.
ReviewToggle(c, i) ==
    /\ mode = "Review"
    /\ report # NoReport
    /\ c \in 1..Len(report.categories)
    /\ i \in 1..Len(report.categories[c].items)
    /\ LET item == report.categories[c].items[i]
       IN  IF item.id \in selected_items
           THEN /\ selected_items' = selected_items \ {item.id}
                /\ chosen' = {x \in chosen : x.id # item.id}
           ELSE /\ selected_items' = selected_items \cup {item.id}
                /\ chosen' = chosen \cup {item}
    /\ UNCHANGED <<report, scan_progress, scan_receiver, mode, enabled, chan, sessions,
                   jobq, running, completed, sup, rcvLog, waited, disk, jobsLeft,
                   accepted>>

\* 'a' on the review screen: select_all_in_category on category c.
ReviewSelectAll(c) ==
    /\ mode = "Review"
    /\ report # NoReport
    /\ c \in 1..Len(report.categories)
    /\ LET its == report.categories[c].items
       IN  /\ selected_items' = selected_items \cup {its[i].id : i \in 1..Len(its)}
           /\ chosen' = chosen \cup {its[i] : i \in 1..Len(its)}
    /\ UNCHANGED <<report, scan_progress, scan_receiver, mode, enabled, chan, sessions,
                   jobq, running, completed, sup, rcvLog, waited, disk, jobsLeft,
                   accepted>>

\* 'n' on the review screen: deselect_all.
ReviewDeselectAll ==
    /\ mode = "Review"
    /\ selected_items # {}
    /\ selected_items' = {}
    /\ chosen' = {}
    /\ UNCHANGED <<report, scan_progress, scan_receiver, mode, enabled, chan, sessions,
                   jobq, running, completed, sup, rcvLog, waited, disk, jobsLeft,
                   accepted>>

\* Enter on the review screen: to the confirmation when something is selected.
ReviewEnter ==
    /\ mode = "Review"
    /\ selected_items # {}
    /\ mode' = "ConfirmClean"
    /\ UNCHANGED <<report, scan_progress, scan_receiver, enabled, chan, sessions,
                   jobq, running, completed, sup, rcvLog, waited, disk, jobsLeft,
                   accepted, selected_items, chosen>>

\* report_items filtered by selected_items.contains(&item.id)
items_to_clean(rep, sel) ==
    IF rep = NoReport THEN <<>>
    ELSE SelectSeq(AllItems(rep.categories), LAMBDA item : item.id \in sel)

\* 'y' / Enter on the confirmation: the selected Findings of the report are
\* handed to DefaultCleaner::clean (the execution engine), and the result
\* screen is shown; the selection is left as it is.
CleanConfirmYes ==
    /\ mode = "ConfirmClean"
    /\ items' = items_to_clean(report, selected_items)
    /\ mode' = "ResultDisplay"
    /\ UNCHANGED <<report, scan_progress, scan_receiver, enabled, chan, sessions,
                   jobq, running, completed, sup, rcvLog, waited, disk, jobsLeft,
                   accepted, selected_items, chosen>>

\* 'n' / Esc on the confirmation.
CleanConfirmNo ==
    /\ mode = "ConfirmClean"
    /\ mode' = "Review"
    /\ UNCHANGED <<report, scan_progress, scan_receiver, enabled, chan, sessions,
                   jobq, running, completed, sup, rcvLog, waited, disk, jobsLeft,
                   accepted, selected_items, chosen>>

\* Enter / Esc / 'q' on the result screen.
CleanResultKey ==
    /\ mode = "ResultDisplay"
    /\ mode' = "Review"
    /\ UNCHANGED <<report, scan_progress, scan_receiver, enabled, chan, sessions,
                   jobq, running, completed, sup, rcvLog, waited, disk, jobsLeft,
                   accepted, selected_items, chosen>>

cleanVarsButItems == <<config, fs, idx, result, returned, outcomes, prev, removed,
                       executed, logged, runs, exec>>

\* Only the cache scanner is switched on, and its location holds up to
\* MaxCandidates candidate paths.
InitSelect ==
    /\ report = NoReport
    /\ scan_progress = DefaultProgress
    /\ scan_receiver = 0
    /\ mode = "CategorySelect"
    /\ enabled = {"system_caches"}
    /\ chan = <<>>
    /\ sessions = 0
    /\ jobq = <<>>
    /\ running = {}
    /\ completed = [s \in 1..MaxSessions |-> 0]
    /\ sup = [s \in 1..MaxSessions |-> IdleSup]
    /\ rcvLog = NothingSeen(0)
    /\ waited = FALSE
    /\ disk = [id \in ScannerIds |-> IF id = "system_caches" THEN MaxCandidates ELSE 0]
    /\ jobsLeft = MaxJobs
    /\ accepted = NoneAccepted
    /\ selected_items = {}
    /\ chosen = {}
    /\ CleanIdle
    /\ LensIdle
    /\ UnitIdle

\* The switches of the category-select screen are left as they are.
NextSelect ==
    \/ CategorySelectEnter /\ UNCHANGED <<cleanVars, lensVars, unitVars>>
    \/ CategorySelectRescan /\ UNCHANGED <<cleanVars, lensVars, unitVars>>
    \/ ReviewRescan /\ UNCHANGED <<cleanVars, lensVars, unitVars>>
    \/ ReviewEsc /\ UNCHANGED <<cleanVars, lensVars, unitVars>>
    \/ (\E c \in 1..Len(all_scanners), i \in 1..MaxCandidates : ReviewToggle(c, i))
           /\ UNCHANGED <<cleanVars, lensVars, unitVars>>
    \/ (\E c \in 1..Len(all_scanners) : ReviewSelectAll(c)) /\ UNCHANGED <<cleanVars, lensVars, unitVars>>
    \/ ReviewDeselectAll /\ UNCHANGED <<cleanVars, lensVars, unitVars>>
    \/ ReviewEnter /\ UNCHANGED <<cleanVars, lensVars, unitVars>>
    \/ CleanConfirmYes /\ UNCHANGED <<cleanVarsButItems, lensVars, unitVars>>
    \/ CleanConfirmNo /\ UNCHANGED <<cleanVars, lensVars, unitVars>>
    \/ CleanResultKey /\ UNCHANGED <<cleanVars, lensVars, unitVars>>
    \/ (\E s \in 1..MaxSessions : SupervisorSubmit(s)) /\ UNCHANGED <<cleanVars, lensVars, unitVars>>
    \/ (\E s \in 1..MaxSessions : SupervisorComplete(s)) /\ UNCHANGED <<cleanVars, lensVars, unitVars>>
    \/ WorkerTake /\ UNCHANGED <<cleanVars, lensVars, unitVars>>
    \/ (\E j \in running : WorkerSendStart(j)) /\ UNCHANGED <<cleanVars, lensVars, unitVars>>
    \/ (\E j \in running : WorkerReportProgress(j)) /\ UNCHANGED <<cleanVars, lensVars, unitVars>>
    \/ (\E j \in running : WorkerReportItem(j)) /\ UNCHANGED <<cleanVars, lensVars, unitVars>>
    \/ (\E j \in running : WorkerSendDone(j)) /\ UNCHANGED <<cleanVars, lensVars, unitVars>>
    \/ (\E j \in running : WorkerFetchAdd(j)) /\ UNCHANGED <<cleanVars, lensVars, unitVars>>
    \/ poll_scan_messages /\ UNCHANGED <<cleanVars, lensVars, unitVars>>

SpecSelect == InitSelect /\ [][NextSelect]_vars

\* The background threads over empty scanner locations, with a user who
\* rescans everything.  The consumer is left out: the threads read nothing
\* of its state, and a dropped receiver only turns their sends into no-ops.
PoolStep ==
    \/ \E s \in 1..MaxSessions : SupervisorSubmit(s)
    \/ \E s \in 1..MaxSessions : SupervisorComplete(s)
    \/ WorkerTake
    \/ \E j \in running : WorkerSendStart(j)
    \/ \E j \in running : WorkerSendDone(j)
    \/ \E j \in running : WorkerFetchAdd(j)

NextPool ==
    \/ CategorySelectRescan /\ UNCHANGED <<cleanVars, lensVars, unitVars>>
    \/ ReviewRescan /\ UNCHANGED <<cleanVars, lensVars, unitVars>>
    \/ (\E s \in 1..MaxSessions : SupervisorSubmit(s)) /\ UNCHANGED <<cleanVars, lensVars, unitVars>>
    \/ (\E s \in 1..MaxSessions : SupervisorComplete(s)) /\ UNCHANGED <<cleanVars, lensVars, unitVars>>
    \/ WorkerTake /\ UNCHANGED <<cleanVars, lensVars, unitVars>>
    \/ (\E j \in running : WorkerSendStart(j)) /\ UNCHANGED <<cleanVars, lensVars, unitVars>>
    \/ (\E j \in running : WorkerSendDone(j)) /\ UNCHANGED <<cleanVars, lensVars, unitVars>>
    \/ (\E j \in running : WorkerFetchAdd(j)) /\ UNCHANGED <<cleanVars, lensVars, unitVars>>

\* The scheduler runs every thread that can take a step; the user may stop
\* pressing keys at any time.
FairScan ==
    /\ InitPool
    /\ [][NextPool]_vars
    /\ WF_vars(PoolStep /\ UNCHANGED <<cleanVars, lensVars, unitVars>>)

\* The consumer polls often enough for the session channel to hold fewer
\* than MaxQueued messages when a thread sends.
QueueHasRoom == Len(chan) < MaxQueued

\* One session of all the rows of the table, over empty locations, with the
\* consumer polling at any time.
NextBusy ==
    \/ CategorySelectRescan /\ UNCHANGED <<cleanVars, lensVars, unitVars>>
    \/ (\E s \in 1..MaxSessions : SupervisorSubmit(s)) /\ UNCHANGED <<cleanVars, lensVars, unitVars>>
    \/ (\E s \in 1..MaxSessions : SupervisorComplete(s)) /\ QueueHasRoom /\ UNCHANGED <<cleanVars, lensVars, unitVars>>
    \/ WorkerTake /\ UNCHANGED <<cleanVars, lensVars, unitVars>>
    \/ (\E j \in running : WorkerSendStart(j)) /\ QueueHasRoom /\ UNCHANGED <<cleanVars, lensVars, unitVars>>
    \/ (\E j \in running : WorkerSendDone(j)) /\ QueueHasRoom /\ UNCHANGED <<cleanVars, lensVars, unitVars>>
    \/ (\E j \in running : WorkerFetchAdd(j)) /\ UNCHANGED <<cleanVars, lensVars, unitVars>>
    \/ poll_scan_messages /\ UNCHANGED <<cleanVars, lensVars, unitVars>>

SpecBusy == InitBusy /\ [][NextBusy]_vars

(***************************************************************************)
(* Properties of the category scan                                         *)
(***************************************************************************)
Range(q) == {q[i] : i \in 1..Len(q)}

\* C1: whenever a report exists, total_size is the sum of the item sizes of
\* all categories and total_items is the sum of the categories' item counts.
C1_TotalsMatch ==
    report # NoReport =>
        /\ report.total_size = SumCatSizes(report.categories)
        /\ report.total_items = SumCatItems(report.categories)

\* A partial rescan is under way: one category survives from the earlier
\* session and one is being filled by the second session.
C1_Witness ==
    /\ sessions = 2
    /\ scan_receiver = 2
    /\ report # NoReport
    /\ Len(report.categories) = 2
    /\ \A i \in 1..2 : report.categories[i].items # <<>>

\* The categories of the report that a rescan of the enabled scanners must
\* leave alone are still there afterwards, with the same Findings.
OthersKept ==
    report # NoReport =>
        \A i \in 1..Len(report.categories) :
            report.categories[i].scanner_id \notin enabled =>
                /\ report' # NoReport
                /\ \E k \in 1..Len(report'.categories) :
                      /\ report'.categories[k].scanner_id =
                            report.categories[i].scanner_id
                      /\ report'.categories[k].items = report.categories[i].items

\* C2: a rescan request for the enabled scanners, from the category-select
\* screen or from the review screen, keeps every category of another
\* scanner, with the same sequence of Findings.
C2_RescanKeepsOthers ==
    [][(CategorySelectRescan \/ ReviewRescan) => OthersKept]_vars

\* C2, category-select screen only.
C2_CategorySelectKeepsOthers == [][CategorySelectRescan => OthersKept]_vars

\* C3: when the consumer receives ScanComplete it has already received the
\* ScannerDone of every scanner submitted in that session.
C3_DoneBeforeComplete ==
    rcvLog.complete => rcvLog.doneAtComplete = Range(sup[rcvLog.session].scanners)

\* ScanComplete was received in a session of two scanners.
C3_Witness ==
    /\ rcvLog.complete
    /\ Len(sup[rcvLog.session].scanners) = 2

\* C4: in every session ScanComplete is eventually sent.
C4_CompleteEventuallySent ==
    \A s \in 1..MaxSessions :
        (sup[s].pc \in {"submit", "wait"}) ~> (sup[s].pc = "done")

\* ScanComplete of the second session was sent after a moment at which the
\* four workers were busy and a job was waiting, some of them jobs of the
\* replaced session, and a scan had returned Err.
C4_Witness ==
    /\ sup[2].pc = "done"
    /\ waited
    /\ \E j \in running : j.session = 1 /\ j.ret = "Err"

\* C21: on a session channel, for each scanner the ScannerStart precedes
\* every ItemFound, every ItemFound precedes the ScannerDone, and nothing of
\* the scanner is received after its ScannerDone.
C21_StartItemsDone == rcvLog.misordered = {}

\* The ScannerStart, an ItemFound and the ScannerDone of a streaming scanner
\* of the second session have been received.
C21_Witness ==
    /\ rcvLog.session = 2
    /\ \E id \in rcvLog.done :
          /\ Streams(id)
          /\ report # NoReport
          /\ FindCat(report.categories, id) # 0

\* C25: scanners_done never exceeds total_scanners and active_scanners
\* never exceeds the pool size; once the consumer has processed ScanComplete,
\* scanners_done equals total_scanners and active_scanners is 0, also when
\* no scanner produced a Finding.
C25_ProgressCounters ==
    /\ scan_progress.scanners_done <= scan_progress.total_scanners
    /\ scan_progress.active_scanners <= DEFAULT_POOL_SIZE
    /\ rcvLog.complete =>
           /\ scan_progress.scanners_done = scan_progress.total_scanners
           /\ scan_progress.active_scanners = 0

\* A session of five scanners that found nothing is complete; the consumer
\* has seen four of them started and not done at once.
C25_Witness ==
    /\ rcvLog.complete
    /\ scan_progress.total_scanners = MaxBusyJobs
    /\ rcvLog.peak = DEFAULT_POOL_SIZE
    /\ report.categories = <<>>

(***************************************************************************)
(* Path policy: src/safety.rs                                              *)
(***************************************************************************)
protected_paths ==
    <<"/System", "/usr", "/bin", "/sbin", "/etc", "/var/db", "/private/var/db">>

critical_patterns ==
    <<".Spotlight-", ".fseventsd", ".Trashes", "Library/Keychains",
      "Library/Security", "Library/CoreServices">>

\* str::starts_with
starts_with(str, p) == Len(str) >= Len(p) /\ SubSeq(str, 1, Len(p)) = p

\* str::contains
contains(str, p) ==
    \E i \in 1..(Len(str) + 1) :
        i + Len(p) - 1 <= Len(str) /\ SubSeq(str, i, i + Len(p) - 1) = p

\* The path without its trailing separators.
RECURSIVE StripSlashes(_)
StripSlashes(str) ==
    IF Len(str) > 1 /\ SubSeq(str, Len(str), Len(str)) = "/"
    THEN StripSlashes(SubSeq(str, 1, Len(str) - 1))
    ELSE str

\* What follows the last separator.
RECURSIVE LastComponent(_)
LastComponent(str) ==
    IF \E i \in 1..Len(str) : SubSeq(str, i, i) = "/"
    THEN LET i == CHOOSE k \in 1..Len(str) : SubSeq(str, k, k) = "/"
         IN  LastComponent(SubSeq(str, i + 1, Len(str)))
    ELSE str

\* Path::file_name, with "" for None (the root, or a path ending in "..").
file_name(path) ==
    LET n == LastComponent(StripSlashes(path))
    IN  IF n = ".." \/ n = "/" THEN "" ELSE n

\* SafetyChecker::is_hidden_system
is_hidden_system(path) ==
    LET n == file_name(path)
    IN  n # "" /\ starts_with(n, ".") /\ ~starts_with(n, "..")

\* SafetyChecker::check_path
check_path(path) ==
    IF \E i \in 1..Len(protected_paths) : starts_with(path, protected_paths[i])
    THEN "Protected"
    ELSE IF \E i \in 1..Len(critical_patterns) : contains(path, critical_patterns[i])
    THEN "Protected"
    ELSE IF is_hidden_system(path) THEN "Caution" ELSE "Safe"

\* SafetyChecker::is_safe_to_delete
is_safe_to_delete(path) == check_path(path) \in {"Safe", "Caution"}

(***************************************************************************)
(* Execution engine: data                                                  *)
(***************************************************************************)
NoCommand == ""

\* Metadata of a Finding that no maintenance task built / that one built.
Plain == [command |-> NoCommand, scanner_id |-> "other"]
Task(cmd) == [command |-> cmd, scanner_id |-> "maintenance"]

\* Sample Findings.  The recorded safety level is the scanner's: the policy's
\* class of the path (caches, logs, dev-junk), a level of the scanner's own
\* table (privacy marks Chrome's Login Data Protected), or Safe for every
\* Finding that run_apply rebuilds from a plan file.  Maintenance Findings
\* carry the command as their path, size 0 and the task's level.
FindingPool ==
    { [path |-> "/Users/u/Library/Caches/app", size |-> 2,
       safety_level |-> "Safe", metadata |-> Plain],
      [path |-> "/Users/u/Library/Chrome/Login Data", size |-> 1,
       safety_level |-> "Protected", metadata |-> Plain],
      [path |-> "/Users/u/.npm", size |-> 3,
       safety_level |-> "Caution", metadata |-> Plain],
      [path |-> "/usr/share/cache", size |-> 4,
       safety_level |-> "Protected", metadata |-> Plain],
      [path |-> "/usr/share/cache", size |-> 4,
       safety_level |-> "Safe", metadata |-> Plain],
      [path |-> "/Users/u/Library/Keychains/k.db", size |-> 1,
       safety_level |-> "Safe", metadata |-> Plain],
      [path |-> "/System/Library/lsregister -kill", size |-> 0,
       safety_level |-> "Safe",
       metadata |-> Task("/System/Library/lsregister -kill")],
      [path |-> "sudo mdutil -E /", size |-> 0,
       safety_level |-> "Caution", metadata |-> Task("sudo mdutil -E /")] }

\* Path::is_dir of a path that exists.
IsDirPath(path) == path \in {"/Users/u/Library/Caches/app", "/Users/u/.npm",
                             "/usr/share/cache"}

\* Whether `sh -c command` exits with status 0 (sudo has no terminal).
CommandSucceeds(cmd) == ~starts_with(cmd, "sudo")

IsTask(item) ==
    /\ item.metadata.command # NoCommand
    /\ item.metadata.scanner_id = "maintenance"

Batches == UNION {[1..n -> FindingPool] : n \in 0..MaxBatch}

PathsOf(batch) == {batch[i].path : i \in {k \in 1..Len(batch) : ~IsTask(batch[k])}}

\* CleanResult::new
NewResult ==
    [success_count |-> 0, failed_count |-> 0, total_freed |-> 0, failed_items |-> <<>>]

ScanIdle ==
    /\ InitApp
    /\ disk = [id \in ScannerIds |-> 0]
    /\ jobsLeft = 0
    /\ accepted = NoneAccepted
    /\ selected_items = {}
    /\ chosen = {}

InitClean ==
    /\ ScanIdle
    /\ LensIdle
    /\ UnitIdle
    /\ items \in Batches
    /\ config \in [dry_run : BOOLEAN, log_history : BOOLEAN]
    /\ fs \in [PathsOf(items) -> {"absent", "present", "locked"}]
    /\ idx = 0
    /\ result = NewResult
    /\ returned = "none"
    /\ outcomes = <<>>
    /\ prev = <<>>
    /\ removed = <<>>
    /\ executed = <<>>
    /\ logged = <<>>
    /\ runs = 0
    /\ exec = NoExec

(***************************************************************************)
(* Execution engine: DefaultCleaner                                        *)
(***************************************************************************)
\* DefaultCleaner::can_clean
can_clean_LevelOnly(item) == item.safety_level \in {"Safe", "Caution"}

can_clean_PolicyOnly(item) == is_safe_to_delete(item.path)

can_clean(item) ==
    /\ item.safety_level \in {"Safe", "Caution"}
    /\ is_safe_to_delete(item.path)

\* DefaultCleaner::delete_path: the call made on the filesystem, if any, and
\* the value returned.
delete_path_NoDryRun(path, dry_run) ==
    IF fs[path] = "absent" THEN [call |-> "none", tries |-> 0, ret |-> "Ok"]
    ELSE [call |-> IF IsDirPath(path) THEN "remove_dir_all" ELSE "remove_file",
          tries |-> 1,
          ret  |-> IF fs[path] = "locked" THEN "Err" ELSE "Ok"]

delete_path_MissingIsError(path, dry_run) ==
    IF dry_run THEN [call |-> "none", tries |-> 0, ret |-> "Ok"]
    ELSE IF fs[path] = "absent" THEN [call |-> "remove_file", tries |-> 1, ret |-> "Err"]
    ELSE [call |-> IF IsDirPath(path) THEN "remove_dir_all" ELSE "remove_file",
          tries |-> 1,
          ret  |-> IF fs[path] = "locked" THEN "Err" ELSE "Ok"]

\* A "locked" path is one whose removal fails with PermissionDenied; `tries`
\* is the number of removal attempts made (the error is returned at once).
delete_path(path, dry_run) ==
    IF dry_run THEN [call |-> "none", tries |-> 0, ret |-> "Ok"]
    ELSE IF fs[path] = "absent" THEN [call |-> "none", tries |-> 0, ret |-> "Ok"]
    ELSE [call |-> IF IsDirPath(path) THEN "remove_dir_all" ELSE "remove_file",
          tries |-> 1,
          ret  |-> IF fs[path] = "locked" THEN "Err" ELSE "Ok"]

\* DefaultCleaner::execute_command: whether sh is run, and the value returned.
execute_command(command, dry_run) ==
    IF dry_run THEN [run |-> FALSE, ret |-> "Ok"]
    ELSE [run |-> TRUE, ret |-> IF CommandSucceeds(command) THEN "Ok" ELSE "Err"]

\* The arms of clean on the CleanResult.
Succeeded(res, freed) ==
    [res EXCEPT !.success_count = @ + 1, !.total_freed = @ + freed]

Failed_NotCounted(res, item, error) ==
    [res EXCEPT !.failed_items = Append(@, <<item.path, error>>)]

Failed(res, item, error) ==
    [res EXCEPT !.failed_items = Append(@, <<item.path, error>>),
                !.failed_count = @ + 1]

\* One iteration of the for loop of clean.
CleanItem ==
    /\ returned = "none"
    /\ idx < Len(items)
    /\ idx' = idx + 1
    /\ LET item == items[idx + 1]
       IN  IF IsTask(item)
           THEN LET x == execute_command(item.metadata.command, config.dry_run)
                IN  /\ executed' = IF x.run THEN Append(executed, item.metadata.command)
                                   ELSE executed
                    /\ result' = IF x.ret = "Ok" THEN Succeeded(result, 0)
                                 ELSE Failed(result, item, "Command failed")
                    /\ outcomes' = Append(outcomes,
                           [arm |-> "command", ok |-> x.ret = "Ok", existed |-> FALSE,
                            call |-> IF x.run THEN "sh" ELSE "none", tries |-> 0])
                    /\ UNCHANGED <<fs, removed, logged>>
           ELSE IF ~can_clean(item)
           THEN /\ result' = Failed(result, item, "Not safe to delete")
                /\ outcomes' = Append(outcomes,
                       [arm |-> "gate", ok |-> FALSE, existed |-> fs[item.path] # "absent",
                        call |-> "none", tries |-> 0])
                /\ UNCHANGED <<fs, removed, executed, logged>>
           ELSE LET d == delete_path(item.path, config.dry_run)
                IN  /\ removed' = IF d.call # "none"
                                  THEN Append(removed, <<d.call, item.path>>)
                                  ELSE removed
                    /\ fs' = IF d.call # "none" /\ d.ret = "Ok"
                             THEN [fs EXCEPT ![item.path] = "absent"]
                             ELSE fs
                    /\ result' = IF d.ret = "Ok" THEN Succeeded(result, item.size)
                                 ELSE Failed(result, item, "remove failed")
                    /\ logged' = IF d.ret = "Ok" /\ config.log_history
                                 THEN Append(logged, <<item.path, item.size>>)
                                 ELSE logged
                    /\ outcomes' = Append(outcomes,
                           [arm |-> "delete", ok |-> d.ret = "Ok",
                            existed |-> fs[item.path] # "absent", call |-> d.call,
                            tries |-> d.tries])
                    /\ UNCHANGED executed
    /\ UNCHANGED <<items, config, returned, prev, runs, exec>>

\* Ok(result)
CleanReturn ==
    /\ returned = "none"
    /\ idx = Len(items)
    /\ returned' = "Ok"
    /\ UNCHANGED <<items, config, fs, idx, result, outcomes, prev, removed, executed,
                   logged, runs, exec>>

\* clean is called again with the same Findings and configuration.
CleanAgain ==
    /\ returned = "Ok"
    /\ runs + 1 < MaxRuns
    /\ runs' = runs + 1
    /\ prev' = outcomes
    /\ idx' = 0
    /\ result' = NewResult
    /\ returned' = "none"
    /\ outcomes' = <<>>
    /\ exec' = NoExec
    /\ UNCHANGED <<items, config, fs, removed, executed, logged>>

\* The status run_apply gives its one category, "all".
CategoryStatus(res) ==
    IF res.failed_count = 0 THEN "Success"
    ELSE IF res.success_count > 0 THEN "Partial"
    ELSE "Failed"

\* ExecutionResult::new: the status over the categories.
ExecutionStatus(categories) ==
    IF \A k \in 1..Len(categories) : categories[k].status = "Success"
    THEN "Success"
    ELSE IF \E k \in 1..Len(categories) : categories[k].status = "Success"
    THEN "Partial"
    ELSE "Failed"

\* run_apply after clean has returned: the category result and the
\* ExecutionResult written out.  run_apply always cleans with dry_run = false.
ApplyReport ==
    /\ returned = "Ok"
    /\ ~config.dry_run
    /\ exec = NoExec
    /\ LET category_results ==
               <<[id |-> "all", status |-> CategoryStatus(result),
                  deleted_count |-> result.success_count,
                  deleted_size_bytes |-> result.total_freed,
                  failed_count |-> result.failed_count]>>
       IN  exec' = [status |-> ExecutionStatus(category_results),
                    categories |-> category_results,
                    total_deleted_size |-> result.total_freed]
    /\ UNCHANGED <<items, config, fs, idx, result, returned, outcomes, prev, removed,
                   executed, logged, runs>>

NextClean ==
    \/ CleanItem /\ UNCHANGED <<scanVars, lensVars, unitVars>>
    \/ CleanReturn /\ UNCHANGED <<scanVars, lensVars, unitVars>>
    \/ CleanAgain /\ UNCHANGED <<scanVars, lensVars, unitVars>>
    \/ ApplyReport /\ UNCHANGED <<scanVars, lensVars, unitVars>>

SpecClean == InitClean /\ [][NextClean]_vars

(***************************************************************************)
(* Execution engine: properties                                            *)
(***************************************************************************)
\* C5: with dry_run = true no step of clean changes the filesystem, calls a
\* remove function or runs a maintenance command.
C5_DryRunNoMutation ==
    [][config.dry_run => (fs' = fs /\ removed' = removed /\ executed' = executed)]_vars

\* A dry run has returned after meeting a deletable Finding whose path exists
\* and a maintenance Finding.
C5_Witness ==
    /\ config.dry_run
    /\ returned = "Ok"
    /\ \E i \in 1..idx : outcomes[i].arm = "delete" /\ outcomes[i].existed
    /\ \E i \in 1..idx : outcomes[i].arm = "command"

\* C6: a dry run returns success_count equal to the number of Findings passed
\* in and total_freed equal to 0.
C6_DryRunCounts ==
    (config.dry_run /\ returned = "Ok") =>
        (result.success_count = Len(items) /\ result.total_freed = 0)

ProtectedSeen == {i \in 1..idx : items[i].safety_level = "Protected"}

\* C7: a Finding whose recorded safety level is Protected makes clean call
\* neither a remove function nor sh; it is listed in failed_items and counted
\* in failed_count, never in success_count.
C7_ProtectedNeverDeleted ==
    /\ \A i \in ProtectedSeen :
          /\ outcomes[i].call = "none"
          /\ \E k \in 1..Len(result.failed_items) :
                 result.failed_items[k] = <<items[i].path, "Not safe to delete">>
    /\ result.failed_count >= Cardinality(ProtectedSeen)
    /\ result.success_count <= idx - Cardinality(ProtectedSeen)

\* A real run has returned after meeting a Finding marked Protected whose path
\* exists and which the path policy alone would let through.
C7_Witness ==
    /\ ~config.dry_run
    /\ returned = "Ok"
    /\ \E i \in ProtectedSeen :
          /\ outcomes[i].existed
          /\ is_safe_to_delete(items[i].path)

\* C8: a path that the path policy classifies as Protected is never handed to
\* a remove function, whatever level the Finding records: such a Finding stops
\* at the gate and is a failure.
C8_PolicyProtectedNeverDeleted ==
    /\ \A k \in 1..Len(removed) : check_path(removed[k][2]) # "Protected"
    /\ \A i \in 1..idx :
          (~IsTask(items[i]) /\ check_path(items[i].path) = "Protected") =>
              (outcomes[i].arm = "gate" /\ outcomes[i].call = "none" /\ ~outcomes[i].ok)

\* A real run has returned after meeting two Findings marked Safe whose paths
\* exist, one Protected by a path prefix and one by a critical pattern.
C8_Witness ==
    /\ ~config.dry_run
    /\ returned = "Ok"
    /\ \E i, j \in 1..idx :
          /\ items[i].safety_level = "Safe" /\ items[j].safety_level = "Safe"
          /\ outcomes[i].existed /\ outcomes[j].existed
          /\ \E n \in 1..Len(protected_paths) : starts_with(items[i].path, protected_paths[n])
          /\ \E n \in 1..Len(critical_patterns) : contains(items[j].path, critical_patterns[n])

DeletedBefore == {i \in 1..Len(prev) : prev[i].arm = "delete" /\ prev[i].ok}

\* C9: a Finding that reaches delete_path with a path that does not exist is
\* a success, and a Finding that clean deleted in one call is a success again
\* in the next call on the same Findings.
C9_MissingPathIsSuccess ==
    /\ \A i \in 1..idx :
          (outcomes[i].arm = "delete" /\ ~outcomes[i].existed) => outcomes[i].ok
    /\ \A i \in DeletedBefore : i <= idx => outcomes[i].ok
    /\ (runs >= 1 /\ returned = "Ok") =>
          result.success_count >= Cardinality(DeletedBefore)

\* The second real run has returned, and reports as a success a Finding whose
\* path the first run removed.
C9_Witness ==
    /\ ~config.dry_run
    /\ runs = 1
    /\ returned = "Ok"
    /\ \E i \in DeletedBefore :
          /\ prev[i].existed
          /\ ~outcomes[i].existed
          /\ outcomes[i].ok
          /\ result.success_count >= 1

RECURSIVE FailedPaths(_)
FailedPaths(n) ==
    IF n = 0 THEN <<>>
    ELSE IF outcomes[n].ok THEN FailedPaths(n - 1)
    ELSE Append(FailedPaths(n - 1), items[n].path)

\* C10: at every point of the loop success_count + failed_count is the number
\* of Findings processed, failed_items holds failed_count entries which are
\* the failed Findings in input order, and clean returns Ok, after the whole
\* batch.
C10_BatchAlwaysCompletes ==
    /\ result.success_count + result.failed_count = idx
    /\ Len(result.failed_items) = result.failed_count
    /\ [k \in 1..Len(result.failed_items) |-> result.failed_items[k][1]] = FailedPaths(idx)
    /\ returned \in {"none", "Ok"}
    /\ returned = "Ok" => idx = Len(items)

\* A real run has returned Ok after a failed deletion or command followed by a
\* successful deletion.
C10_Witness ==
    /\ ~config.dry_run
    /\ returned = "Ok"
    /\ Len(items) = 2
    /\ outcomes[1].arm \in {"delete", "command"}
    /\ outcomes[1].call # "none"
    /\ ~outcomes[1].ok
    /\ outcomes[2].arm = "delete" /\ outcomes[2].existed /\ outcomes[2].ok

\* C11: a deletion that fails with PermissionDenied is recorded as failed
\* only after a second attempt, made through the privilege-escalation prompt.
C11_RetryOnPermissionDenied ==
    \A i \in 1..idx :
        (outcomes[i].arm = "delete" /\ outcomes[i].tries >= 1 /\ ~outcomes[i].ok)
            => outcomes[i].tries = 2

\* C12: the status of the ExecutionResult is Success exactly when every item
\* succeeded, Partial when some succeeded and some failed, Failed when none
\* succeeded (an empty batch may be Success or Failed).
C12_AggregateStatus ==
    exec # NoExec =>
        /\ exec.status = "Success" <=>
               (result.failed_count = 0 /\ (result.success_count > 0 \/ Len(items) = 0))
        /\ exec.status = "Partial" <=>
               (result.success_count > 0 /\ result.failed_count > 0)
        /\ exec.status = "Failed" <=>
               (result.success_count = 0 /\ result.failed_count > 0)

\* The status of the one category run_apply builds does follow the rule.
C12_CategoryStatus ==
    exec # NoExec =>
        /\ exec.categories[1].status = "Success" <=> result.failed_count = 0
        /\ exec.categories[1].status = "Partial" <=>
               (result.success_count > 0 /\ result.failed_count > 0)
        /\ exec.categories[1].status = "Failed" <=>
               (result.success_count = 0 /\ result.failed_count > 0)

RECURSIVE DeletedEntries(_)
DeletedEntries(n) ==
    IF n = 0 THEN <<>>
    ELSE IF outcomes[n].arm = "delete" /\ outcomes[n].ok /\ outcomes[n].tries >= 1
    THEN Append(DeletedEntries(n - 1), <<items[n].path, items[n].size>>)
    ELSE DeletedEntries(n - 1)

\* C13: in the first clean call with log_history enabled, the calls of
\* log_delete are exactly the items whose path was removed, once each and in
\* order; nothing is logged for a failed, gated or simulated item.
C13_LoggedIffDeleted ==
    (config.log_history /\ runs = 0) => logged = DeletedEntries(idx)

(***************************************************************************)
(* Directory-usage explorer: the explored tree                             *)
(***************************************************************************)
\* std::fs::read_dir(path) after the filter of start_space_scan (no excluded
\* path, symlink or mount point in the tree), in directory order.
read_dir(p) ==
    CASE p = "/"  -> <<"/C">>
      [] p = "/C" -> <<"/C/f1", "/C/f2">>
      [] p = "/B" -> <<"/B/b1", "/B/b2", "/B/b3", "/B/b4", "/B/b5">>
      [] OTHER    -> <<>>

\* Path::is_dir
is_dir(p) == p \in {"/", "/C", "/B"}

\* metadata.len() of a regular file
FileLen(p) ==
    CASE p = "/C/f1" -> 2
      [] p = "/C/f2" -> 1
      [] p \in {"/B/b1", "/B/b2", "/B/b3", "/B/b4", "/B/b5"} -> 1
      [] OTHER       -> 0

\* Path::parent, with "" for None.
parent(p) ==
    CASE p = "/" -> ""
      [] p \in {"/C", "/B"} -> "/"
      [] p \in {"/C/f1", "/C/f2"} -> "/C"
      [] OTHER -> "/B"

\* Path::exists: a path is there until it or its directory is removed.
Exists(p) == p \notin unlinked /\ parent(p) \notin unlinked

\* The children read_dir yields now.
LiveDir(p) == SelectSeq(read_dir(p), LAMBDA c : Exists(c))

\* The regular files WalkDir yields under p, in walk order.
RECURSIVE WalkPaths(_), WalkPathsAll(_)
WalkPaths(p) == IF is_dir(p) THEN WalkPathsAll(read_dir(p)) ELSE <<p>>

WalkPathsAll(ps) ==
    IF ps = <<>> THEN <<>> ELSE WalkPaths(Head(ps)) \o WalkPathsAll(Tail(ps))

\* The lengths of the regular files WalkDir yields under p, in walk order.
RECURSIVE WalkFiles(_), WalkAll(_)
WalkFiles(p) == IF is_dir(p) THEN WalkAll(read_dir(p)) ELSE <<FileLen(p)>>

WalkAll(ps) == IF ps = <<>> THEN <<>> ELSE WalkFiles(Head(ps)) \o WalkAll(Tail(ps))

\* current_size after the first n files of the walk.
RECURSIVE SumFirst(_, _)
SumFirst(lens, n) == IF n = 0 THEN 0 ELSE lens[n] + SumFirst(lens, n - 1)

\* A FolderEntry (its name is the last component of its path).
FolderEntry(p, size, scanning) ==
    [path |-> p, size |-> size, is_dir |-> is_dir(p), scanning |-> scanning]

(***************************************************************************)
(* Directory-usage explorer: start_space_scan and poll_space_sizes         *)
(***************************************************************************)
\* Sender::send on a channel: lost once the receiver is dropped.
LSend(chs, id, m) == IF chs[id].rx THEN [chs EXCEPT ![id].q = Append(@, m)] ELSE chs

\* The receivers of the channels in `ids` are dropped.
DropReceivers(chs, ids) ==
    [id \in DOMAIN chs |-> IF id \in ids THEN [chs[id] EXCEPT !.rx = FALSE, !.q = <<>>]
                           ELSE chs[id]]

\* state.entries.iter().find(|e| e.path == p): its position, 0 for None.
FindEntry(ents, p) ==
    IF \E i \in 1..Len(ents) : ents[i].path = p
    THEN CHOOSE i \in 1..Len(ents) :
            /\ ents[i].path = p
            /\ \A j \in 1..(i - 1) : ents[j].path # p
    ELSE 0

\* "already in entries and its scan complete"
AlreadyComplete(ents, p) ==
    /\ ents # <<>>
    /\ FindEntry(ents, p) # 0
    /\ ~ents[FindEntry(ents, p)].scanning

\* Phase 2, for one child: skipped, answered from the cache, or walked.
TaskOf(ents, cch, c) ==
    IF is_dir(c) /\ AlreadyComplete(ents, c) THEN "skip"
    ELSE IF is_dir(c) /\ cch[c] # NoCache /\ ~cch[c].was_loading THEN "reuse"
    ELSE "job"

\* Phase 1: a (size 0, scanning) entry for every child not already complete.
Phase1(ents, children) ==
    LET todo == SelectSeq(children, LAMBDA c : ~AlreadyComplete(ents, c))
    IN  [k \in 1..Len(todo) |-> FolderEntry(todo[k], 0, TRUE)]

\* should_rescan: no snapshot, or one taken while the scan was running.
ShouldRescan_Always(cached) == TRUE

ShouldRescan(cached) == cached = NoCache \/ cached.was_loading

\* start_space_scan, with state.current_path = path and state.cache = cch.
start_space_scan(path, cch) ==
    LET cached == cch[path]
        ents   == IF cached # NoCache THEN cached.entries ELSE <<>>
        tot    == IF cached # NoCache THEN cached.total_size ELSE 0
        should_rescan == ShouldRescan(cached)
        dropped == IF parallel_scan THEN {}
                   ELSE {pending_scans[p] : p \in LensPaths \ {path}} \ {0}
        pend1  == IF parallel_scan THEN pending_scans
                  ELSE [p \in LensPaths |-> IF p = path THEN pending_scans[p] ELSE 0]
        chs1   == DropReceivers(lchans, dropped)
        id     == nchans + 1
        children == LiveDir(path)
        phase1 == Phase1(ents, children)
        jobs   == SelectSeq(children, LAMBDA c : TaskOf(ents, cch, c) = "job")
        reuses == SelectSeq(children, LAMBDA c : TaskOf(ents, cch, c) = "reuse")
        tasks  == SelectSeq(children, LAMBDA c : TaskOf(ents, cch, c) # "skip")
    IN  /\ current_path' = path
        /\ cache' = cch
        /\ entries' = ents
        /\ lens_total_size' = tot
        /\ IF ~should_rescan
           THEN /\ loading' = FALSE
                /\ stayed' = [chan |-> 0, done |-> FALSE, how |-> "cached", other |-> {},
                            deleted |-> {}]
                /\ UNCHANGED <<pending_scans, lchans, nchans, ljobq, lthreads>>
           ELSE IF pend1[path] # 0
           THEN /\ loading' = TRUE
                /\ pending_scans' = pend1
                /\ lchans' = chs1
                /\ stayed' = [chan |-> 0, done |-> FALSE, how |-> "joined", other |-> {},
                            deleted |-> {}]
                /\ UNCHANGED <<nchans, ljobq, lthreads>>
           ELSE /\ nchans < MaxChans
                /\ loading' = TRUE
                /\ nchans' = id
                /\ pending_scans' = [pend1 EXCEPT ![path] = id]
                /\ stayed' = [chan |-> id, done |-> FALSE, how |-> "started", other |-> {},
                            deleted |-> {}]
                /\ IF parallel_scan
                   THEN /\ lchans' = Append(chs1,
                               [q |-> phase1 \o
                                      [k \in 1..Len(reuses) |->
                                          FolderEntry(reuses[k], cch[reuses[k]].total_size, FALSE)],
                                senders |-> Len(jobs), rx |-> TRUE])
                        /\ ljobq' = ljobq \o [k \in 1..Len(jobs) |->
                                                 [chan |-> id, path |-> jobs[k]]]
                        /\ UNCHANGED lthreads
                   ELSE IF ~Exists(path)
                   THEN /\ lchans' = Append(chs1, [q |-> <<>>, senders |-> 0, rx |-> TRUE])
                        /\ UNCHANGED <<ljobq, lthreads>>
                   ELSE /\ lchans' = Append(chs1, [q |-> phase1, senders |-> 1, rx |-> TRUE])
                        /\ lthreads' = lthreads \cup
                              {[chan |-> id,
                                todo |-> [k \in 1..Len(tasks) |->
                                    [path |-> tasks[k],
                                     kind |-> TaskOf(ents, cch, tasks[k]),
                                     size |-> IF TaskOf(ents, cch, tasks[k]) = "reuse"
                                              THEN cch[tasks[k]].total_size ELSE 0]],
                                walked |-> 0, cur |-> 0, sent |-> <<>>, pc |-> "next"]}
                        /\ UNCHANGED ljobq

\* Vec::sort_by(|a, b| b.size.cmp(&a.size)): stable, by descending size.
RECURSIVE InsertBySize(_, _)
InsertBySize(sorted, e) ==
    IF sorted = <<>> THEN <<e>>
    ELSE IF Head(sorted).size >= e.size
         THEN <<Head(sorted)>> \o InsertBySize(Tail(sorted), e)
         ELSE <<e>> \o sorted

RECURSIVE SortBySize(_)
SortBySize(ents) ==
    IF ents = <<>> THEN <<>>
    ELSE InsertBySize(SortBySize(SubSeq(ents, 1, Len(ents) - 1)), ents[Len(ents)])

\* The Ok(entry) arm of poll_space_sizes for the current path;
\* st = [entries, total_size].
ApplyEntry(st, e) ==
    LET k == FindEntry(st.entries, e.path)
    IN  IF k # 0
        THEN IF e.size > 0 \/ st.entries[k].size = 0
             THEN [entries |-> SortBySize([st.entries EXCEPT ![k].size = e.size,
                                                            ![k].scanning = e.scanning]),
                   total_size |-> saturating_sub(st.total_size, st.entries[k].size) + e.size]
             ELSE [entries |-> SortBySize([st.entries EXCEPT ![k].scanning = e.scanning]),
                   total_size |-> st.total_size]
        ELSE [entries |-> SortBySize(Append(st.entries, e)),
              total_size |-> st.total_size + e.size]

RECURSIVE ApplyEntries(_, _)
ApplyEntries(st, q) ==
    IF q = <<>> THEN st ELSE ApplyEntries(ApplyEntry(st, Head(q)), Tail(q))

\* try_recv returns Disconnected: nothing queued and every sender dropped.
Disconnected(id) == lchans[id].senders = 0

\* `if *path == current_path`: the messages of a pending channel that the
\* poll applies to the listing.
Applied_AnyPath(p, q) == q

Applied(p, q) == IF p = current_path THEN q ELSE <<>>

\* The loop over pending_scans, from the listing st.
RECURSIVE PollAll(_, _)
PollAll(st, ps) ==
    IF ps = {} THEN st
    ELSE LET p == CHOOSE x \in ps : TRUE
         IN  PollAll(ApplyEntries(st, Applied(p, lchans[pending_scans[p]].q)), ps \ {p})

\* poll_space_sizes: every pending channel is drained; the messages of the
\* current path are applied, the others discarded; a disconnected channel is
\* removed, and the listing of the current path is then cached as final.
poll_space_sizes ==
    LET polled == {p \in LensPaths : pending_scans[p] # 0}
        closed == {p \in polled : Disconnected(pending_scans[p])}
        cur    == current_path
        st     == PollAll([entries |-> entries, total_size |-> lens_total_size], polled)
        others == {k \in {"message"} : \E p \in polled \ {cur} : lchans[pending_scans[p]].q # <<>>}
                      \cup {k \in {"closed"} : closed \ {cur} # {}}
    IN  /\ \E p \in polled : lchans[pending_scans[p]].q # <<>> \/ p \in closed
        /\ entries' = st.entries
        /\ lens_total_size' = st.total_size
        /\ loading' = IF cur \in closed THEN FALSE ELSE loading
        /\ cache' = IF cur \in closed
                    THEN [cache EXCEPT ![cur] = [entries |-> st.entries,
                                                 total_size |-> st.total_size,
                                                 was_loading |-> FALSE]]
                    ELSE cache
        /\ pending_scans' = [p \in LensPaths |-> IF p \in closed THEN 0 ELSE pending_scans[p]]
        /\ lchans' = [id \in DOMAIN lchans |->
                        IF \E p \in closed : pending_scans[p] = id
                        THEN [lchans[id] EXCEPT !.q = <<>>, !.rx = FALSE]
                        ELSE IF \E p \in polled : pending_scans[p] = id
                        THEN [lchans[id] EXCEPT !.q = <<>>]
                        ELSE lchans[id]]
        /\ stayed' = [stayed EXCEPT
                         !.done = IF cur \in closed /\ stayed.chan = pending_scans[cur]
                                     /\ stayed.chan # 0
                                  THEN TRUE ELSE @,
                         !.other = @ \cup others]
        /\ UNCHANGED <<current_path, parallel_scan, nchans, ljobq, lworkers, active_threads,
                       lthreads, hist, delete_mode, pending_delete, unlinked>>

(***************************************************************************)
(* Directory-usage explorer: pool workers and single-mode threads          *)
(***************************************************************************)
lensFrame == <<current_path, entries, lens_total_size, loading, cache, pending_scans,
               parallel_scan, nchans, hist, stayed, delete_mode, pending_delete,
               unlinked>>

\* The sender of a finished job or thread is dropped.
DropSender(chs, id) == [chs EXCEPT ![id].senders = @ - 1]

\* rx.lock(); rx.recv() by an idle worker of the 4-worker pool.
LensWorkerTake ==
    /\ ljobq # <<>>
    /\ Cardinality(lworkers) < DEFAULT_POOL_SIZE
    /\ lworkers' = lworkers \cup
           {[chan |-> Head(ljobq).chan, path |-> Head(ljobq).path,
             walked |-> 0, cur |-> 0, sent |-> <<>>, pc |-> "taken"]}
    /\ ljobq' = Dequeue(ljobq)
    /\ UNCHANGED <<lensFrame, lchans, lthreads, active_threads>>

\* counter.fetch_add(1)
LensWorkerCount(j) ==
    /\ j.pc = "taken"
    /\ active_threads' = active_threads + 1
    /\ lworkers' = (lworkers \ {j}) \cup {[j EXCEPT !.pc = "walk"]}
    /\ UNCHANGED <<lensFrame, lchans, ljobq, lthreads>>

\* The update sent after the walk met a regular file of length len, with
\* current_size = cur before it.
WalkUpdate_LastFileOnly(p, cur, len) == FolderEntry(p, len, TRUE)

WalkUpdate(p, cur, len) == FolderEntry(p, cur + len, TRUE)

\* The last message about a child: the end of the walk with current_size =
\* cur, or the file's length.
FinalUpdate(p, cur) ==
    IF is_dir(p) THEN FolderEntry(p, cur, FALSE)
    ELSE FolderEntry(p, FileLen(p), FALSE)

\* A worker's walk meets a regular file; one whose metadata cannot be read
\* any more is passed over.
LensWorkerWalk(j) ==
    /\ j.pc = "walk"
    /\ is_dir(j.path)
    /\ j.walked < Len(WalkPaths(j.path))
    /\ LET f == WalkPaths(j.path)[j.walked + 1]
           m == WalkUpdate(j.path, j.cur, FileLen(f))
       IN  IF Exists(f)
           THEN /\ lchans' = LSend(lchans, j.chan, m)
                /\ lworkers' = (lworkers \ {j}) \cup
                       {[j EXCEPT !.walked = @ + 1, !.cur = m.size, !.sent = Append(@, m)]}
           ELSE /\ lchans' = lchans
                /\ lworkers' = (lworkers \ {j}) \cup {[j EXCEPT !.walked = @ + 1]}
    /\ UNCHANGED <<lensFrame, ljobq, lthreads, active_threads>>

\* The walk is over, or the job is a file: the final message.  A file whose
\* metadata cannot be read gets none.
LensWorkerFinal(j) ==
    /\ j.pc = "walk"
    /\ is_dir(j.path) => j.walked = Len(WalkPaths(j.path))
    /\ LET m == FinalUpdate(j.path, j.cur)
       IN  IF is_dir(j.path) \/ Exists(j.path)
           THEN /\ lchans' = LSend(lchans, j.chan, m)
                /\ lworkers' = (lworkers \ {j}) \cup
                       {[j EXCEPT !.pc = "sent", !.sent = Append(@, m)]}
           ELSE /\ lchans' = lchans
                /\ lworkers' = (lworkers \ {j}) \cup {[j EXCEPT !.pc = "sent"]}
    /\ UNCHANGED <<lensFrame, ljobq, lthreads, active_threads>>

\* counter.fetch_sub(1)
ActiveAfterJob_NotSubtracted(n) == n

ActiveAfterJob(n) == n - 1

\* The counter is decremented; the job is dropped, and its sender with it.
LensWorkerDone(j) ==
    /\ j.pc = "sent"
    /\ active_threads' = ActiveAfterJob(active_threads)
    /\ lworkers' = lworkers \ {j}
    /\ lchans' = DropSender(lchans, j.chan)
    /\ UNCHANGED <<lensFrame, ljobq, lthreads>>

\* The single-mode thread turns to its next child, or ends.  A child that
\* is no longer there is neither a directory nor a file with metadata.
LensThreadNext(t) ==
    /\ t.pc = "next"
    /\ IF t.todo = <<>>
       THEN /\ lthreads' = lthreads \ {t}
            /\ lchans' = DropSender(lchans, t.chan)
       ELSE IF ~Exists(Head(t.todo).path)
       THEN /\ lthreads' = (lthreads \ {t}) \cup {[t EXCEPT !.todo = Tail(@)]}
            /\ UNCHANGED lchans
       ELSE IF Head(t.todo).kind = "reuse"
       THEN /\ lchans' = LSend(lchans, t.chan,
                               FolderEntry(Head(t.todo).path, Head(t.todo).size, FALSE))
            /\ lthreads' = (lthreads \ {t}) \cup {[t EXCEPT !.todo = Tail(@)]}
       ELSE /\ lthreads' = (lthreads \ {t}) \cup
                   {[t EXCEPT !.pc = "walk", !.walked = 0, !.cur = 0, !.sent = <<>>]}
            /\ UNCHANGED lchans
    /\ UNCHANGED <<lensFrame, ljobq, lworkers, active_threads>>

\* The thread's walk meets a regular file.
LensThreadWalk(t) ==
    /\ t.pc = "walk"
    /\ is_dir(Head(t.todo).path)
    /\ t.walked < Len(WalkPaths(Head(t.todo).path))
    /\ LET f == WalkPaths(Head(t.todo).path)[t.walked + 1]
           m == WalkUpdate(Head(t.todo).path, t.cur, FileLen(f))
       IN  IF Exists(f)
           THEN /\ lchans' = LSend(lchans, t.chan, m)
                /\ lthreads' = (lthreads \ {t}) \cup
                       {[t EXCEPT !.walked = @ + 1, !.cur = m.size, !.sent = Append(@, m)]}
           ELSE /\ lchans' = lchans
                /\ lthreads' = (lthreads \ {t}) \cup {[t EXCEPT !.walked = @ + 1]}
    /\ UNCHANGED <<lensFrame, ljobq, lworkers, active_threads>>

\* The thread's final message about the child.
LensThreadFinal(t) ==
    /\ t.pc = "walk"
    /\ is_dir(Head(t.todo).path) => t.walked = Len(WalkPaths(Head(t.todo).path))
    /\ LET m == FinalUpdate(Head(t.todo).path, t.cur)
       IN  IF is_dir(Head(t.todo).path) \/ Exists(Head(t.todo).path)
           THEN /\ lchans' = LSend(lchans, t.chan, m)
                /\ lthreads' = (lthreads \ {t}) \cup
                       {[t EXCEPT !.pc = "sent", !.sent = Append(@, m)]}
           ELSE /\ lchans' = lchans
                /\ lthreads' = (lthreads \ {t}) \cup {[t EXCEPT !.pc = "sent"]}
    /\ UNCHANGED <<lensFrame, ljobq, lworkers, active_threads>>

\* The thread's loop goes on to the next child.
LensThreadLoop(t) ==
    /\ t.pc = "sent"
    /\ lthreads' = (lthreads \ {t}) \cup {[t EXCEPT !.pc = "next", !.todo = Tail(@)]}
    /\ UNCHANGED <<lensFrame, ljobq, lworkers, active_threads, lchans>>

(***************************************************************************)
(* Directory-usage explorer: key handlers                                  *)
(***************************************************************************)
scanVarsButMode == <<report, scan_progress, scan_receiver, enabled, chan, sessions,
                     jobq, running, completed, sup, rcvLog, waited, disk, jobsLeft,
                   accepted, selected_items, chosen>>

\* cache_current_if_needed: the cache afterwards.
cache_current_if_needed ==
    IF entries # <<>> /\ cache[current_path] = NoCache
    THEN [cache EXCEPT ![current_path] =
             [entries |-> entries, total_size |-> lens_total_size, was_loading |-> loading]]
    ELSE cache

\* 'v' on the review screen: the explorer opens on dirs::home_dir().
OpenLens(home) ==
    /\ mode = "Review"
    /\ Len(hist) < MaxNav
    /\ hist' = Append(hist, "v")
    /\ start_space_scan(home, cache)
    /\ mode' = "SpaceLens"
    /\ UNCHANGED <<parallel_scan, lworkers, active_threads, delete_mode, pending_delete,
                   unlinked>>

\* The home directory is the root of the small tree.
ReviewOpenLens == OpenLens("/")

\* Enter on the directory entry under the cursor.
LensEnter(i) ==
    /\ mode = "SpaceLens"
    /\ delete_mode = "Browse"
    /\ Len(hist) < MaxNav
    /\ entries[i].is_dir
    /\ hist' = Append(hist, "Enter")
    /\ start_space_scan(entries[i].path, cache_current_if_needed)
    /\ UNCHANGED <<mode, parallel_scan, lworkers, active_threads, delete_mode,
                   pending_delete, unlinked>>

\* Esc / Backspace: to the parent, or back to the review screen from the root.
LensEsc ==
    /\ mode = "SpaceLens"
    /\ delete_mode = "Browse"
    /\ Len(hist) < MaxNav
    /\ hist' = Append(hist, "Esc")
    /\ IF parent(current_path) # ""
       THEN /\ start_space_scan(parent(current_path), cache_current_if_needed)
            /\ UNCHANGED mode
       ELSE /\ mode' = "Review"
            /\ UNCHANGED <<current_path, entries, lens_total_size, loading, cache,
                           pending_scans, lchans, nchans, ljobq, lthreads, stayed>>
    /\ UNCHANGED <<parallel_scan, lworkers, active_threads, delete_mode, pending_delete,
                   unlinked>>

\* 'r': the snapshot of the current directory is dropped and it is scanned.
LensRescan ==
    /\ mode = "SpaceLens"
    /\ delete_mode = "Browse"
    /\ Len(hist) < MaxNav
    /\ hist' = Append(hist, "r")
    /\ start_space_scan(current_path, [cache EXCEPT ![current_path] = NoCache])
    /\ UNCHANGED <<mode, parallel_scan, lworkers, active_threads, delete_mode,
                   pending_delete, unlinked>>

\* 'p': the mode is toggled; entering single mode drops every pending channel.
LensToggleParallel ==
    /\ mode = "SpaceLens"
    /\ delete_mode = "Browse"
    /\ Len(hist) < MaxNav
    /\ hist' = Append(hist, "p")
    /\ parallel_scan' = ~parallel_scan
    /\ IF parallel_scan
       THEN /\ pending_scans' = [p \in LensPaths |-> 0]
            /\ lchans' = DropReceivers(lchans, {pending_scans[p] : p \in LensPaths} \ {0})
       ELSE UNCHANGED <<pending_scans, lchans>>
    /\ UNCHANGED <<mode, current_path, entries, lens_total_size, loading, cache, nchans,
                   ljobq, lworkers, active_threads, lthreads, stayed, delete_mode,
                   pending_delete, unlinked>>

lensButHist == <<current_path, loading, pending_scans, parallel_scan, lchans, nchans,
                 ljobq, lworkers, active_threads, lthreads>>

lensButDelete == <<lensButHist, hist>>

\* 'd' on the entry under the cursor: the explorer asks for confirmation.
LensDelete(i) ==
    /\ mode = "SpaceLens"
    /\ delete_mode = "Browse"
    /\ Len(hist) < MaxNav
    /\ hist' = Append(hist, "d")
    /\ pending_delete' = entries[i]
    /\ delete_mode' = "ConfirmDelete"
    /\ UNCHANGED <<mode, lensButHist, entries, lens_total_size, cache, stayed, unlinked>>

\* entries.retain(|e| e.path != path)
RetainOthers(ents, path) == SelectSeq(ents, LAMBDA e : e.path # path)

\* entries.iter().map(|e| e.size).sum()
SumOfSizes_Stale(ents) == lens_total_size

RECURSIVE SumOfSizes(_)
SumOfSizes(ents) == IF ents = <<>> THEN 0 ELSE Head(ents).size + SumOfSizes(Tail(ents))

\* delete_entry: remove_dir_all or remove_file succeeds (ok) or fails; a
\* path that is not there any more is Ok(()) with nothing removed.
delete_entry(path, ok) == IF Exists(path) /\ ok THEN unlinked \cup {path} ELSE unlinked

\* 'y' / Enter on the confirmation: the entry is deleted and leaves the
\* listing, the total is recomputed, the snapshot of the directory dropped.
LensConfirmYes ==
    /\ mode = "SpaceLens"
    /\ delete_mode = "ConfirmDelete"
    /\ IF pending_delete # NoEntry
       THEN /\ \E ok \in BOOLEAN : unlinked' = delete_entry(pending_delete.path, ok)
            /\ entries' = RetainOthers(entries, pending_delete.path)
            /\ lens_total_size' = SumOfSizes(entries')
            /\ cache' = [cache EXCEPT ![current_path] = NoCache]
            /\ stayed' = [stayed EXCEPT !.deleted = @ \cup {pending_delete.path}]
            /\ delete_mode' = "ShowResult"
       ELSE /\ delete_mode' = "Browse"
            /\ UNCHANGED <<unlinked, entries, lens_total_size, cache, stayed>>
    /\ pending_delete' = NoEntry
    /\ UNCHANGED <<mode, lensButDelete>>

\* 'n' / Esc on the confirmation.
LensConfirmNo ==
    /\ mode = "SpaceLens"
    /\ delete_mode = "ConfirmDelete"
    /\ pending_delete' = NoEntry
    /\ delete_mode' = "Browse"
    /\ UNCHANGED <<mode, lensButDelete, entries, lens_total_size, cache, stayed, unlinked>>

\* Enter / Esc / 'q' on the result of the deletion.
LensResultKey ==
    /\ mode = "SpaceLens"
    /\ delete_mode = "ShowResult"
    /\ delete_mode' = "Browse"
    /\ UNCHANGED <<mode, lensButDelete, entries, lens_total_size, cache, stayed, unlinked,
                   pending_delete>>

\* The review screen after a scan of the one enabled scanner, System Logs,
\* which found nothing, has completed and been polled.
ReviewAfterScan ==
    /\ report = [categories |-> <<>>, total_size |-> 0, total_items |-> 0]
    /\ scan_progress = [current_scanner |-> "System Logs", current_path |-> "None",
                        scanners_done |-> 1, total_scanners |-> 1, active_scanners |-> 0]
    /\ scan_receiver = 0
    /\ mode = "Review"
    /\ enabled = {"system_logs"}
    /\ chan = <<>>
    /\ sessions = 1
    /\ jobq = <<>>
    /\ running = {}
    /\ completed = [s \in 1..MaxSessions |-> IF s = 1 THEN 1 ELSE 0]
    /\ sup = [s \in 1..MaxSessions |->
                 IF s = 1 THEN [pc |-> "done", todo |-> <<>>, scanners |-> <<"system_logs">>]
                 ELSE IdleSup]
    /\ rcvLog = [session |-> 1, started |-> {"system_logs"}, done |-> {"system_logs"},
                 misordered |-> {}, peak |-> 1, complete |-> TRUE,
                 doneAtComplete |-> {"system_logs"}]
    /\ waited = FALSE
    /\ disk = [id \in ScannerIds |-> IF Streams(id) THEN MaxItems ELSE 0]
    /\ jobsLeft = MaxJobs - 1
    /\ accepted = NoneAccepted
    /\ selected_items = {}
    /\ chosen = {}

InitLens ==
    /\ ReviewAfterScan
    /\ CleanIdle
    /\ LensIdle
    /\ UnitIdle

NextLens ==
    \/ ReviewOpenLens /\ UNCHANGED <<scanVarsButMode, cleanVars, unitVars>>
    \/ (\E i \in 1..Len(entries) : LensEnter(i)) /\ UNCHANGED <<scanVarsButMode, cleanVars, unitVars>>
    \/ LensEsc /\ UNCHANGED <<scanVarsButMode, cleanVars, unitVars>>
    \/ LensRescan /\ UNCHANGED <<scanVarsButMode, cleanVars, unitVars>>
    \/ LensToggleParallel /\ UNCHANGED <<scanVarsButMode, cleanVars, unitVars>>
    \/ poll_space_sizes /\ UNCHANGED <<scanVars, cleanVars, unitVars>>
    \/ LensWorkerTake /\ UNCHANGED <<scanVars, cleanVars, unitVars>>
    \/ (\E j \in lworkers : LensWorkerCount(j)) /\ UNCHANGED <<scanVars, cleanVars, unitVars>>
    \/ (\E j \in lworkers : LensWorkerWalk(j)) /\ UNCHANGED <<scanVars, cleanVars, unitVars>>
    \/ (\E j \in lworkers : LensWorkerFinal(j)) /\ UNCHANGED <<scanVars, cleanVars, unitVars>>
    \/ (\E j \in lworkers : LensWorkerDone(j)) /\ UNCHANGED <<scanVars, cleanVars, unitVars>>
    \/ (\E t \in lthreads : LensThreadNext(t)) /\ UNCHANGED <<scanVars, cleanVars, unitVars>>
    \/ (\E t \in lthreads : LensThreadWalk(t)) /\ UNCHANGED <<scanVars, cleanVars, unitVars>>
    \/ (\E t \in lthreads : LensThreadFinal(t)) /\ UNCHANGED <<scanVars, cleanVars, unitVars>>
    \/ (\E t \in lthreads : LensThreadLoop(t)) /\ UNCHANGED <<scanVars, cleanVars, unitVars>>

SpecLens == InitLens /\ [][NextLens]_vars

\* The explorer with its delete keys.
InitLensDelete ==
    /\ ReviewAfterScan
    /\ CleanIdle
    /\ LensIdle
    /\ UnitIdle

NextLensDelete ==
    \/ ReviewOpenLens /\ UNCHANGED <<scanVarsButMode, cleanVars, unitVars>>
    \/ (\E i \in 1..Len(entries) : LensEnter(i)) /\ UNCHANGED <<scanVarsButMode, cleanVars, unitVars>>
    \/ LensEsc /\ UNCHANGED <<scanVarsButMode, cleanVars, unitVars>>
    \/ LensRescan /\ UNCHANGED <<scanVarsButMode, cleanVars, unitVars>>
    \/ LensToggleParallel /\ UNCHANGED <<scanVarsButMode, cleanVars, unitVars>>
    \/ (\E i \in 1..Len(entries) : LensDelete(i)) /\ UNCHANGED <<scanVarsButMode, cleanVars, unitVars>>
    \/ LensConfirmYes /\ UNCHANGED <<scanVarsButMode, cleanVars, unitVars>>
    \/ LensConfirmNo /\ UNCHANGED <<scanVarsButMode, cleanVars, unitVars>>
    \/ LensResultKey /\ UNCHANGED <<scanVarsButMode, cleanVars, unitVars>>
    \/ poll_space_sizes /\ UNCHANGED <<scanVars, cleanVars, unitVars>>
    \/ LensWorkerTake /\ UNCHANGED <<scanVars, cleanVars, unitVars>>
    \/ (\E j \in lworkers : LensWorkerCount(j)) /\ UNCHANGED <<scanVars, cleanVars, unitVars>>
    \/ (\E j \in lworkers : LensWorkerWalk(j)) /\ UNCHANGED <<scanVars, cleanVars, unitVars>>
    \/ (\E j \in lworkers : LensWorkerFinal(j)) /\ UNCHANGED <<scanVars, cleanVars, unitVars>>
    \/ (\E j \in lworkers : LensWorkerDone(j)) /\ UNCHANGED <<scanVars, cleanVars, unitVars>>
    \/ (\E t \in lthreads : LensThreadNext(t)) /\ UNCHANGED <<scanVars, cleanVars, unitVars>>
    \/ (\E t \in lthreads : LensThreadWalk(t)) /\ UNCHANGED <<scanVars, cleanVars, unitVars>>
    \/ (\E t \in lthreads : LensThreadFinal(t)) /\ UNCHANGED <<scanVars, cleanVars, unitVars>>
    \/ (\E t \in lthreads : LensThreadLoop(t)) /\ UNCHANGED <<scanVars, cleanVars, unitVars>>

SpecLensDelete == InitLensDelete /\ [][NextLensDelete]_vars

\* The home directory is /B, a volume of its own with five files: more jobs
\* than the bucket has workers.  The user opens the explorer and stays.
InitLensPool ==
    /\ ReviewAfterScan
    /\ CleanIdle
    /\ LensIdle
    /\ UnitIdle

NextLensPool ==
    \/ OpenLens("/B") /\ UNCHANGED <<scanVarsButMode, cleanVars, unitVars>>
    \/ poll_space_sizes /\ UNCHANGED <<scanVars, cleanVars, unitVars>>
    \/ LensWorkerTake /\ UNCHANGED <<scanVars, cleanVars, unitVars>>
    \/ (\E j \in lworkers : LensWorkerCount(j)) /\ UNCHANGED <<scanVars, cleanVars, unitVars>>
    \/ (\E j \in lworkers : LensWorkerFinal(j)) /\ UNCHANGED <<scanVars, cleanVars, unitVars>>
    \/ (\E j \in lworkers : LensWorkerDone(j)) /\ UNCHANGED <<scanVars, cleanVars, unitVars>>

SpecLensPool == InitLensPool /\ [][NextLensPool]_vars

(***************************************************************************)
(* Both worker pools under the scheduler                                   *)
(***************************************************************************)
\* The steps of the supervisory thread and of the scanner pool's workers.
ScanThreadStep ==
    \/ \E s \in 1..MaxSessions : SupervisorSubmit(s)
    \/ (\E s \in 1..MaxSessions : SupervisorComplete(s)) /\ QueueHasRoom
    \/ WorkerTake
    \/ (\E j \in running : WorkerSendStart(j)) /\ QueueHasRoom
    \/ (\E j \in running : WorkerSendDone(j)) /\ QueueHasRoom
    \/ \E j \in running : WorkerFetchAdd(j)

\* The steps of the directory-usage pool's workers.
LensThreadStep ==
    \/ LensWorkerTake
    \/ \E j \in lworkers : LensWorkerCount(j)
    \/ \E j \in lworkers : LensWorkerFinal(j)
    \/ \E j \in lworkers : LensWorkerDone(j)

\* Every row of the table is enabled; no explorer is open yet.
InitPools ==
    /\ InitBusy

\* The user scans with every scanner, and opens the explorer once the scan
\* is complete; the explorer's consumer is left out.
NextPools ==
    \/ CategorySelectRescan /\ UNCHANGED <<cleanVars, lensVars, unitVars>>
    \/ (\E s \in 1..MaxSessions : SupervisorSubmit(s)) /\ UNCHANGED <<cleanVars, lensVars, unitVars>>
    \/ (\E s \in 1..MaxSessions : SupervisorComplete(s)) /\ QueueHasRoom /\ UNCHANGED <<cleanVars, lensVars, unitVars>>
    \/ WorkerTake /\ UNCHANGED <<cleanVars, lensVars, unitVars>>
    \/ (\E j \in running : WorkerSendStart(j)) /\ QueueHasRoom /\ UNCHANGED <<cleanVars, lensVars, unitVars>>
    \/ (\E j \in running : WorkerSendDone(j)) /\ QueueHasRoom /\ UNCHANGED <<cleanVars, lensVars, unitVars>>
    \/ (\E j \in running : WorkerFetchAdd(j)) /\ UNCHANGED <<cleanVars, lensVars, unitVars>>
    \/ poll_scan_messages /\ UNCHANGED <<cleanVars, lensVars, unitVars>>
    \/ OpenLens("/B") /\ rcvLog.complete /\ UNCHANGED <<scanVarsButMode, cleanVars, unitVars>>
    \/ LensWorkerTake /\ UNCHANGED <<scanVars, cleanVars, unitVars>>
    \/ (\E j \in lworkers : LensWorkerCount(j)) /\ UNCHANGED <<scanVars, cleanVars, unitVars>>
    \/ (\E j \in lworkers : LensWorkerFinal(j)) /\ UNCHANGED <<scanVars, cleanVars, unitVars>>
    \/ (\E j \in lworkers : LensWorkerDone(j)) /\ UNCHANGED <<scanVars, cleanVars, unitVars>>

\* The scheduler runs every thread that can take a step and the event loop
\* polls the session channel on every frame.
FairPools ==
    /\ InitPools
    /\ [][NextPools]_vars
    /\ WF_vars(ScanThreadStep /\ UNCHANGED <<cleanVars, lensVars, unitVars>>)
    /\ WF_vars(poll_scan_messages /\ UNCHANGED <<cleanVars, lensVars, unitVars>>)
    /\ WF_vars(LensThreadStep /\ UNCHANGED <<scanVars, cleanVars, unitVars>>)

(***************************************************************************)
(* Directory-usage explorer: properties                                    *)
(***************************************************************************)
\* A step of a key handler that calls start_space_scan.
StartScanStep ==
    \/ ReviewOpenLens
    \/ \E i \in 1..Len(entries) : LensEnter(i)
    \/ LensEsc /\ parent(current_path) # ""
    \/ LensRescan

\* C14: when start_space_scan runs on a directory whose snapshot has
\* was_loading = false, entries and total_size become the cached values,
\* loading becomes false, and no job is submitted, no thread spawned and no
\* pending channel registered, created or dropped.
C14_CachedFinalNoWork ==
    [][(/\ StartScanStep
        /\ cache'[current_path'] # NoCache
        /\ ~cache'[current_path'].was_loading)
       => (/\ entries' = cache'[current_path'].entries
           /\ lens_total_size' = cache'[current_path'].total_size
           /\ ~loading'
           /\ ljobq' = ljobq
           /\ lworkers' = lworkers
           /\ lthreads' = lthreads
           /\ pending_scans' = pending_scans
           /\ lchans' = lchans
           /\ nchans' = nchans)]_vars

\* A directory with a final snapshot has just been entered while the scan of
\* another directory is pending.
C14_Witness ==
    /\ stayed.how = "cached"
    /\ entries # <<>>
    /\ entries = cache[current_path].entries
    /\ \E p \in LensPaths \ {current_path} : pending_scans[p] # 0

\* The size of a child: a file's length, or the lengths of all regular files
\* under a directory.
TrueSize(p) == SumFirst(WalkFiles(p), Len(WalkFiles(p)))

RECURSIVE SumEntrySizes(_)
SumEntrySizes(ents) ==
    IF ents = <<>> THEN 0 ELSE Head(ents).size + SumEntrySizes(Tail(ents))

\* The listing of a directory holds one final entry of the true size per child.
ListingComplete(ents, dir) ==
    /\ Len(ents) = Len(read_dir(dir))
    /\ {ents[i] : i \in 1..Len(ents)} =
           {FolderEntry(read_dir(dir)[k], TrueSize(read_dir(dir)[k]), FALSE) :
               k \in 1..Len(read_dir(dir))}

\* C15: once a scan started in the current directory has completed with the
\* user staying there, the listing has one entry per child with the child's
\* true size and scanning = false, and total_size is the sum of the sizes.
C15_CompletedListing ==
    stayed.done =>
        /\ ListingComplete(entries, current_path)
        /\ lens_total_size = SumEntrySizes(entries)

\* C16: the size shown for an entry whose scanning flag is true never
\* decreases from one state to the next.
C16_SizeNeverDecreases ==
    [][\A i \in 1..Len(entries) : \A k \in 1..Len(entries') :
          (entries[i].path = entries'[k].path /\ entries[i].scanning)
              => entries'[k].size >= entries[i].size]_vars

\* The messages sent so far by one job: sizes never decrease, none but the
\* last has scanning = false, and a job that is through has sent exactly one
\* such message, the last, with the total of the walk.
SentInOrder(sent, done, path) ==
    /\ \A a, b \in 1..Len(sent) : a <= b => sent[a].size <= sent[b].size
    /\ \A a \in 1..(Len(sent) - 1) : sent[a].scanning
    /\ done => /\ sent # <<>>
               /\ ~sent[Len(sent)].scanning
               /\ sent[Len(sent)].size = TrueSize(path)
    /\ ~done => \A a \in 1..Len(sent) : sent[a].scanning

\* C17: every directory job, on a pool worker or on a single-mode thread,
\* sends its messages in that order.
C17_JobMessagesOrdered ==
    /\ \A j \in lworkers : SentInOrder(j.sent, j.pc = "sent", j.path)
    /\ \A t \in lthreads :
          t.pc \in {"walk", "sent"} =>
              SentInOrder(t.sent, t.pc = "sent", Head(t.todo).path)

\* A pool worker and a single-mode thread have both sent the last message of
\* a walk over two files.
C17_Witness ==
    /\ \E j \in lworkers : j.pc = "sent" /\ Len(j.sent) = 3
    /\ \E t \in lthreads : t.pc = "sent" /\ Len(t.sent) = 3

\* All background work has finished and every message has been polled.
Quiescent ==
    /\ ljobq = <<>>
    /\ lworkers = {}
    /\ lthreads = {}
    /\ \A p \in LensPaths : pending_scans[p] = 0

\* The same navigation (open the explorer, enter C, come back) in the two
\* modes: without a toggle every scan runs on the pool, with a toggle right
\* after opening every later scan runs on a dedicated thread.
PoolRun == hist = <<"v", "Enter", "Esc">>

SingleRun == hist = <<"v", "p", "Enter", "Esc">>

\* C18: for the same tree and the same navigation, the pool run and the
\* single-threaded run end with the same entries and the same total_size
\* once all background work has finished: here the complete listing of "/".
C18_SameFinalListing ==
    (Quiescent /\ mode = "SpaceLens" /\ (PoolRun \/ SingleRun))
        => /\ ListingComplete(entries, current_path)
           /\ lens_total_size = TrueSize("/")

\* The single-threaded run always ends with the complete listing.
C18_SingleModeListing ==
    (Quiescent /\ mode = "SpaceLens" /\ SingleRun)
        => /\ ListingComplete(entries, current_path)
           /\ lens_total_size = TrueSize("/")

(***************************************************************************)
(* Scanner units: duplicate finder, system caches, trash, browser caches   *)
(***************************************************************************)
MIN_SIZE == 1024

\* Path::starts_with: whole components.
path_starts_with(path, base) ==
    \/ path = base
    \/ base = "/"
    \/ starts_with(path, base \o "/")

\* config.excluded_paths.iter().any(|ex| path.starts_with(ex))
is_excluded(cfg, path) == \E ex \in cfg.excluded_paths : path_starts_with(path, ex)

\* calculate_file_hash: SHA-256 of the content, no two sample contents collide.
calculate_file_hash(c) == "sha256(" \o c \o ")"

\* format!("{}:{}", size, hash)
KeyOf(c) == ToString(ContentLen(c)) \o ":" \o calculate_file_hash(c)

MaxOf(a, b) == IF a >= b THEN a ELSE b

\* The first loop of DuplicatesScanner::scan keeps the file.
Candidate(cfg, fl, p) ==
    /\ fl[p] # NoFile
    /\ ~is_excluded(cfg, p)
    /\ ~starts_with(file_name(p), ".")
    /\ ContentLen(fl[p].content) >= MaxOf(MIN_SIZE, cfg.min_size)

\* paths.sort_by(modified): stable, oldest first.
RECURSIVE InsertByModified(_, _, _)
InsertByModified(sorted, p, fl) ==
    IF sorted = <<>> THEN <<p>>
    ELSE IF fl[p].modified < fl[Head(sorted)].modified THEN <<p>> \o sorted
    ELSE <<Head(sorted)>> \o InsertByModified(Tail(sorted), p, fl)

RECURSIVE SortByModified(_, _)
SortByModified(paths, fl) ==
    IF paths = <<>> THEN <<>>
    ELSE InsertByModified(SortByModified(SubSeq(paths, 1, Len(paths) - 1), fl),
                          paths[Len(paths)], fl)

\* total_dup_size of a group sorted oldest first.
RECURSIVE SumLens(_, _)
SumLens(paths, fl) ==
    IF paths = <<>> THEN 0
    ELSE ContentLen(fl[Head(paths)].content) + SumLens(Tail(paths), fl)

total_dup_size_WithOriginal(sorted, fl) == SumLens(sorted, fl)

total_dup_size(sorted, fl) == SumLens(Tail(sorted), fl)

\* DuplicatesScanner::scan, first loop: the candidates by size.
DupCollect ==
    /\ upc = "idle"
    /\ unit' = "duplicates"
    /\ LET sizes == {ContentLen(files[p].content) :
                        p \in {q \in DupPathSet : Candidate(scan_config, files, q)}}
       IN  size_map' = [sz \in sizes |->
               SelectSeq(DupPaths, LAMBDA p : /\ Candidate(scan_config, files, p)
                                             /\ ContentLen(files[p].content) = sz)]
    /\ upc' = "hash"
    /\ UNCHANGED <<files, scan_config, hash_map, keys_left, group_id, unit_items, streamed>>

\* Second loop: the files of every size shared by two or more, by "size:hash".
DupHash ==
    /\ upc = "hash"
    /\ LET shared == {sz \in DOMAIN size_map : Len(size_map[sz]) >= 2}
           hashed == {p \in DupPathSet :
                         \E sz \in shared : \E i \in 1..Len(size_map[sz]) : size_map[sz][i] = p}
           keys   == {KeyOf(files[p].content) : p \in hashed}
       IN  /\ hash_map' = [k \in keys |->
                   SelectSeq(DupPaths, LAMBDA p : /\ p \in hashed
                                                 /\ KeyOf(files[p].content) = k)]
           /\ keys_left' = keys
    /\ upc' = "group"
    /\ UNCHANGED <<files, scan_config, unit, size_map, group_id, unit_items, streamed>>

\* Third loop, one key of hash_map (in HashMap iteration order, which is
\* arbitrary): a Finding for a group of two or more.
DupGroup(k) ==
    /\ upc = "group"
    /\ k \in keys_left
    /\ keys_left' = keys_left \ {k}
    /\ IF Len(hash_map[k]) < 2
       THEN UNCHANGED <<group_id, unit_items, streamed>>
       ELSE LET sorted == SortByModified(hash_map[k], files)
                item   == [id         |-> "dup_" \o ToString(group_id),
                           path       |-> sorted[1],
                           size       |-> total_dup_size(sorted, files),
                           file_count |-> Len(sorted) - 1]
            IN  /\ streamed' = Append(streamed, item)
                /\ unit_items' = Append(unit_items, item)
                /\ group_id' = group_id + 1
    /\ UNCHANGED <<files, scan_config, unit, upc, size_map, hash_map>>

\* items.sort_by(size, descending); Ok(items)
DupReturn ==
    /\ upc = "group"
    /\ keys_left = {}
    /\ unit_items' = SortBySize(unit_items)
    /\ upc' = "done"
    /\ UNCHANGED <<files, scan_config, unit, size_map, hash_map, keys_left, group_id, streamed>>

\* DefaultCleaner::clean on the Finding unit_items[i] of a finished
\* duplicate scan (its safety level is Caution): the gate, then delete_path
\* on the Finding's path; `ok` is whether remove_file succeeds.
DupClean(i) ==
    /\ upc = "done"
    /\ unit = "duplicates"
    /\ i \in 1..Len(unit_items)
    /\ \E dry_run \in BOOLEAN, ok \in BOOLEAN :
           LET item == unit_items[i]
               gate == can_clean([path |-> item.path, safety_level |-> "Caution"])
           IN  files' = IF gate /\ ~dry_run /\ files[item.path] # NoFile /\ ok
                        THEN [files EXCEPT ![item.path] = NoFile]
                        ELSE files
    /\ UNCHANGED <<scan_config, unit, upc, size_map, hash_map, keys_left, group_id,
                   unit_items, streamed>>

\* The directories that exist under the cache scanner's roots, in walk
\* order, the trash and Safari's cache.
CacheWalk ==
    <<"/Users/u/Library/Caches", "/Users/u/Library/Caches/app",
      "/Users/u/Library/Caches/com.apple.Safari">>

trash_paths == <<"/Users/u/.Trash">>

cache_paths ==
    <<[name |-> "safari", path |-> "/Users/u/Library/Caches/com.apple.Safari"],
      [name |-> "chrome", path |-> "/Users/u/Library/Caches/Google/Chrome"]>>

calculate_dir_size(p) ==
    CASE p = "/Users/u/Library/Caches"                  -> 6144
      [] p = "/Users/u/Library/Caches/app"              -> 2048
      [] p = "/Users/u/Library/Caches/com.apple.Safari" -> 4096
      [] p = "/Users/u/Library/Caches/Google/Chrome"    -> 8192
      [] p = "/Users/u/.Trash"                          -> 1024
      [] OTHER                                          -> 0

count_files(p) == IF p = "/Users/u/Library/Caches" THEN 2 ELSE 1

\* CacheScanner::scan: the loop over the directories, then sort and truncate.
RECURSIVE CacheItems(_, _, _)
CacheItems(cfg, dirs, acc) ==
    IF dirs = <<>> THEN acc
    ELSE LET path == Head(dirs)
             item == [id         |-> "cache_" \o ToString(Len(acc)),
                      path       |-> path,
                      size       |-> calculate_dir_size(path),
                      file_count |-> count_files(path)]
         IN  IF ~is_excluded(cfg, path) /\ calculate_dir_size(path) >= cfg.min_size
             THEN CacheItems(cfg, Tail(dirs), Append(acc, item))
             ELSE CacheItems(cfg, Tail(dirs), acc)

CacheScan ==
    /\ upc = "idle"
    /\ unit' = "system_caches"
    /\ LET found  == CacheItems(scan_config, CacheWalk, <<>>)
           sorted == SortBySize(found)
       IN  /\ streamed' = found
           /\ unit_items' = SubSeq(sorted, 1, IF Len(sorted) > 100 THEN 100 ELSE Len(sorted))
    /\ upc' = "done"
    /\ UNCHANGED <<files, scan_config, size_map, hash_map, keys_left, group_id>>

\* What glob yields for "**/node_modules" under ~/Projects when n projects
\* hold such a directory, with the size calculate_dir_size finds for each.
MaxDevMatches == 51

DevMatchCounts == 0..MaxDevMatches

DevGlob(n) ==
    [k \in 1..n |-> [path |-> "/Users/u/Projects/p" \o ToString(k) \o "/node_modules",
                     size |-> 4096 * k]]

\* items.truncate(50) of DevJunkScanner::scan
DEV_CAP == 50

\* DevJunkScanner::scan: the loop over the matches of one pattern.
RECURSIVE DevItems(_, _, _)
DevItems(cfg, matches, acc) ==
    IF matches = <<>> THEN acc
    ELSE LET entry == Head(matches)
             item  == [id         |-> "dev_node_modules_" \o ToString(Len(acc)),
                       path       |-> entry.path,
                       size       |-> entry.size,
                       file_count |-> 1]
         IN  IF ~is_excluded(cfg, entry.path) /\ entry.size >= cfg.min_size
             THEN DevItems(cfg, Tail(matches), Append(acc, item))
             ELSE DevItems(cfg, Tail(matches), acc)

\* DevJunkScanner::scan: every accepted Finding goes to report_item and to
\* items; items is then sorted and truncated.
DevScan ==
    /\ upc = "idle"
    /\ unit' = "dev_junk"
    /\ \E n \in DevMatchCounts :
           LET found  == DevItems(scan_config, DevGlob(n), <<>>)
               sorted == SortBySize(found)
           IN  /\ streamed' = found
               /\ unit_items' = SubSeq(sorted, 1, IF Len(sorted) > DEV_CAP THEN DEV_CAP
                                                  ELSE Len(sorted))
    /\ upc' = "done"
    /\ UNCHANGED <<files, scan_config, size_map, hash_map, keys_left, group_id>>

\* TrashScanner::scan
TrashScan ==
    /\ upc = "idle"
    /\ unit' = "trash"
    /\ LET found == [i \in 1..Len(trash_paths) |->
                        [id         |-> "trash_main",
                         path       |-> trash_paths[i],
                         size       |-> calculate_dir_size(trash_paths[i]),
                         file_count |-> count_files(trash_paths[i])]]
           kept  == SelectSeq(found, LAMBDA it : it.size > 0)
       IN  /\ streamed' = kept
           /\ unit_items' = kept
    /\ upc' = "done"
    /\ UNCHANGED <<files, scan_config, size_map, hash_map, keys_left, group_id>>

\* BrowserCacheScanner::scan (it never calls report_item)
BrowserScan ==
    /\ upc = "idle"
    /\ unit' = "browser_cache"
    /\ LET found == [i \in 1..Len(cache_paths) |->
                        [id         |-> "browser_" \o cache_paths[i].name,
                         path       |-> cache_paths[i].path,
                         size       |-> calculate_dir_size(cache_paths[i].path),
                         file_count |-> count_files(cache_paths[i].path)]]
       IN  unit_items' = SelectSeq(found, LAMBDA it : it.size >= scan_config.min_size)
    /\ upc' = "done"
    /\ UNCHANGED <<files, scan_config, size_map, hash_map, keys_left, group_id, streamed>>

\* The files and the configuration one scan may be given.
FileStates ==
    {NoFile} \cup [content : Contents, modified : 1..MaxModified]

ConfigChoices ==
    [min_size : {0, 4096},
     excluded_paths : {{}, {"/Users/u/Downloads", "/Users/u/.Trash",
                            "/Users/u/Library/Caches/com.apple.Safari"}}]

InitUnit ==
    /\ ScanIdle
    /\ CleanIdle
    /\ LensIdle
    /\ files \in [DupPathSet -> FileStates]
    /\ scan_config \in ConfigChoices
    /\ unit = "none"
    /\ upc = "idle"
    /\ size_map = <<>>
    /\ hash_map = <<>>
    /\ keys_left = {}
    /\ group_id = 0
    /\ unit_items = <<>>
    /\ streamed = <<>>

NextUnit ==
    \/ DupCollect /\ UNCHANGED <<scanVars, cleanVars, lensVars>>
    \/ DupHash /\ UNCHANGED <<scanVars, cleanVars, lensVars>>
    \/ \E k \in keys_left : DupGroup(k) /\ UNCHANGED <<scanVars, cleanVars, lensVars>>
    \/ DupReturn /\ UNCHANGED <<scanVars, cleanVars, lensVars>>
    \/ CacheScan /\ UNCHANGED <<scanVars, cleanVars, lensVars>>
    \/ TrashScan /\ UNCHANGED <<scanVars, cleanVars, lensVars>>
    \/ BrowserScan /\ UNCHANGED <<scanVars, cleanVars, lensVars>>

SpecUnit == InitUnit /\ [][NextUnit]_vars

\* The directory scanners that pass their Findings to report_item, over
\* every configuration; the duplicate finder's search paths hold no file.
InitStream ==
    /\ ScanIdle
    /\ CleanIdle
    /\ LensIdle
    /\ files = [p \in DupPathSet |-> NoFile]
    /\ scan_config \in ConfigChoices
    /\ unit = "none"
    /\ upc = "idle"
    /\ size_map = <<>>
    /\ hash_map = <<>>
    /\ keys_left = {}
    /\ group_id = 0
    /\ unit_items = <<>>
    /\ streamed = <<>>

NextStream ==
    \/ CacheScan /\ UNCHANGED <<scanVars, cleanVars, lensVars>>
    \/ DevScan /\ UNCHANGED <<scanVars, cleanVars, lensVars>>
    \/ TrashScan /\ UNCHANGED <<scanVars, cleanVars, lensVars>>

SpecStream == InitStream /\ [][NextStream]_vars

\* A duplicate scan followed by cleaning of its Findings.
InitDupClean ==
    /\ ScanIdle
    /\ CleanIdle
    /\ LensIdle
    /\ files \in [DupPathSet -> FileStates]
    /\ scan_config = [min_size |-> 0, excluded_paths |-> {}]
    /\ unit = "none"
    /\ upc = "idle"
    /\ size_map = <<>>
    /\ hash_map = <<>>
    /\ keys_left = {}
    /\ group_id = 0
    /\ unit_items = <<>>
    /\ streamed = <<>>

NextDupClean ==
    \/ DupCollect /\ UNCHANGED <<scanVars, cleanVars, lensVars>>
    \/ DupHash /\ UNCHANGED <<scanVars, cleanVars, lensVars>>
    \/ \E k \in keys_left : DupGroup(k) /\ UNCHANGED <<scanVars, cleanVars, lensVars>>
    \/ DupReturn /\ UNCHANGED <<scanVars, cleanVars, lensVars>>
    \/ \E i \in 1..Len(unit_items) : DupClean(i) /\ UNCHANGED <<scanVars, cleanVars, lensVars>>

SpecDupClean == InitDupClean /\ [][NextDupClean]_vars

(***************************************************************************)
(* Scanner units: system logs                                              *)
(***************************************************************************)
\* The one log directory and the files WalkDir may yield under it, in walk
\* order.
log_dir == "/Users/u/Library/Logs"

LogFiles ==
    <<"/Users/u/Library/Logs/a.log", "/Users/u/Library/Logs/b.log",
      "/Users/u/Library/Logs/c.log">>

LogFileSet == {LogFiles[i] : i \in 1..Len(LogFiles)}

\* A log file: its length and what fails on it, nothing ("ok"), the listing
\* of its directory entry ("no_list") or the read of its metadata
\* ("no_meta").
LogFileStates ==
    {NoFile} \cup [len : {100, 5000}, access : {"ok", "no_list", "no_meta"}]

\* Vec::truncate
Truncate(v, n) == SubSeq(v, 1, IF Len(v) > n THEN n ELSE Len(v))

\* calculate_dir_size and count_files of the log directory: entries and
\* metadata that cannot be read are left out.
RECURSIVE LogDirSize(_, _)
LogDirSize(fl, ents) ==
    IF ents = <<>> THEN 0
    ELSE (IF fl[Head(ents)] # NoFile /\ fl[Head(ents)].access = "ok"
          THEN fl[Head(ents)].len ELSE 0) + LogDirSize(fl, Tail(ents))

RECURSIVE LogDirCount(_, _)
LogDirCount(fl, ents) ==
    IF ents = <<>> THEN 0
    ELSE (IF fl[Head(ents)] # NoFile /\ fl[Head(ents)].access # "no_list"
          THEN 1 ELSE 0) + LogDirCount(fl, Tail(ents))

\* One accepted entry of LogScanner::scan.
LogItem(n, path, size, count) ==
    [id |-> "log_" \o ToString(n), path |-> path, size |-> size, file_count |-> count]

\* The loop of LogScanner::scan over the files after the directory itself:
\* [ok, items], ok = FALSE when `entry.metadata()?` has returned the error.
RECURSIVE LogWalk(_, _, _, _)
LogWalk(cfg, fl, ents, acc) ==
    IF ents = <<>> THEN [ok |-> TRUE, items |-> acc]
    ELSE LET path == Head(ents)
         IN  IF fl[path] = NoFile \/ fl[path].access = "no_list"
             THEN LogWalk(cfg, fl, Tail(ents), acc)
             ELSE IF is_excluded(cfg, path)
             THEN LogWalk(cfg, fl, Tail(ents), acc)
             ELSE IF fl[path].access = "no_meta"
             THEN [ok |-> FALSE, items |-> <<>>]
             ELSE IF fl[path].len >= cfg.min_size
             THEN LogWalk(cfg, fl, Tail(ents),
                          Append(acc, LogItem(Len(acc), path, fl[path].len, 1)))
             ELSE LogWalk(cfg, fl, Tail(ents), acc)

\* LogScanner::scan (it never calls report_item): the directory itself is
\* the first entry of the walk, then its files; sort and truncate.
LogScan ==
    /\ upc = "idle"
    /\ unit' = "system_logs"
    /\ LET size  == LogDirSize(files, LogFiles)
           first == IF ~is_excluded(scan_config, log_dir) /\ size >= scan_config.min_size
                    THEN <<LogItem(0, log_dir, size, LogDirCount(files, LogFiles))>>
                    ELSE <<>>
           walk  == IF is_excluded(scan_config, log_dir)
                    THEN [ok |-> TRUE, items |-> <<>>]
                    ELSE LogWalk(scan_config, files, LogFiles, first)
       IN  IF walk.ok
           THEN /\ unit_items' = Truncate(SortBySize(walk.items), 100)
                /\ upc' = "done"
           ELSE /\ unit_items' = <<>>
                /\ upc' = "failed"
    /\ UNCHANGED <<files, scan_config, size_map, hash_map, keys_left, group_id, streamed>>

InitLogs ==
    /\ ScanIdle
    /\ CleanIdle
    /\ LensIdle
    /\ files \in [LogFileSet -> LogFileStates]
    /\ scan_config \in ConfigChoices
    /\ unit = "none"
    /\ upc = "idle"
    /\ size_map = <<>>
    /\ hash_map = <<>>
    /\ keys_left = {}
    /\ group_id = 0
    /\ unit_items = <<>>
    /\ streamed = <<>>

NextLogs ==
    \/ LogScan /\ UNCHANGED <<scanVars, cleanVars, lensVars>>

SpecLogs == InitLogs /\ [][NextLogs]_vars

(***************************************************************************)
(* Scanner units: properties                                               *)
(***************************************************************************)
\* The files of `among` with the size and the content hash of p.
SameData(among, p) ==
    {q \in among : /\ ContentLen(files[q].content) = ContentLen(files[p].content)
                   /\ calculate_file_hash(files[q].content) =
                          calculate_file_hash(files[p].content)}

RECURSIVE SumOfLens(_)
SumOfLens(ps) ==
    IF ps = {} THEN 0
    ELSE LET p == CHOOSE q \in ps : TRUE
         IN  ContentLen(files[p].content) + SumOfLens(ps \ {p})

\* The returned Findings are, one for one, the groups of two or more files
\* of `among` with equal size and hash: the Finding's path is an oldest file
\* of its group, its size the sum of the other files' sizes and its file
\* count their number.
DupReportMatches(among) ==
    LET groups == {G \in {SameData(among, p) : p \in among} : Cardinality(G) >= 2}
    IN  /\ Len(unit_items) = Cardinality(groups)
        /\ \A G \in groups :
              \E i \in 1..Len(unit_items) :
                  LET it == unit_items[i]
                  IN  /\ it.path \in G
                      /\ \A q \in G : files[it.path].modified <= files[q].modified
                      /\ it.size = SumOfLens(G \ {it.path})
                      /\ it.file_count = Cardinality(G) - 1

DupDone == unit = "duplicates" /\ upc = "done"

C20_NoExcludedFinding ==
    upc = "done" =>
        /\ \A i \in 1..Len(unit_items) : ~is_excluded(scan_config, unit_items[i].path)
        /\ \A i \in 1..Len(streamed) : ~is_excluded(scan_config, streamed[i].path)

(***************************************************************************)
(* Directory-usage explorer: resuming, caching and polling                 *)
(***************************************************************************)
\* The children for which a start_space_scan step submits a pool job or
\* gives the new thread a walk or a metadata read.
SubmittedNow ==
    {ljobq'[k].path : k \in (Len(ljobq) + 1)..Len(ljobq')}
        \cup UNION {{t.todo[k].path : k \in {n \in 1..Len(t.todo) : t.todo[n].kind = "job"}} :
                        t \in lthreads' \ lthreads}

\* C22: when start_space_scan starts a scan, no child whose existing entry
\* has scanning = false, file or directory, is submitted again.
C22_OnlyIncompleteResubmitted ==
    [][StartScanStep =>
          \A c \in SubmittedNow :
              \A i \in 1..Len(entries') :
                  entries'[i].path = c => entries'[i].scanning]_vars

\* Enter on a directory entry, or Esc / Backspace below the root.
NavigationStep ==
    \/ \E i \in 1..Len(entries) : LensEnter(i)
    \/ LensEsc /\ parent(current_path) # ""

\* C23: after navigating from a directory P to a child or to the parent, the
\* cache entry of P holds P's entries and total_size as they were at the
\* moment of navigation, and was_loading is the loading flag of that moment,
\* whether or not P already had a cache entry.
C23_NavigationCachesCurrent ==
    [][NavigationStep =>
          cache'[current_path] =
              [entries |-> entries, total_size |-> lens_total_size,
               was_loading |-> loading]]_vars

\* The channel of the current directory has nothing for this poll: no scan
\* of it is pending, or its channel is empty and still open.
CurrentQuiet ==
    \/ pending_scans[current_path] = 0
    \/ /\ lchans[pending_scans[current_path]].q = <<>>
       /\ lchans[pending_scans[current_path]].senders > 0

\* C24: a poll that finds messages or a closing only on channels of other
\* directories leaves entries, total_size, loading and the cache unchanged;
\* the only change to pending_scans is that the closed channels are removed.
C24_OtherChannelsDiscarded ==
    [][(poll_space_sizes /\ CurrentQuiet) =>
          /\ entries' = entries
          /\ lens_total_size' = lens_total_size
          /\ loading' = loading
          /\ cache' = cache
          /\ \A p \in LensPaths :
                pending_scans'[p] = IF pending_scans[p] # 0
                                       /\ lchans[pending_scans[p]].senders = 0
                                    THEN 0 ELSE pending_scans[p]]_vars

\* Since the last start_space_scan a poll has discarded a message of another
\* directory and has removed the closed channel of another directory, while
\* the current directory is still being scanned.
C24_Witness ==
    /\ mode = "SpaceLens"
    /\ stayed.other = {"message", "closed"}
    /\ loading
    /\ pending_scans[current_path] # 0

(***************************************************************************)
(* Scanner units: unreadable entries, order and cap of the result          *)
(***************************************************************************)
\* C26: an entry that cannot be listed or whose metadata cannot be read is
\* skipped: the scan of the log directory returns Ok, and every readable
\* file that is not excluded and reaches min_size has its Finding.
C26_UnreadableSkipped ==
    (unit = "system_logs" /\ upc # "idle") =>
        /\ upc = "done"
        /\ \A p \in LogFileSet :
              (/\ files[p] # NoFile
               /\ files[p].access = "ok"
               /\ ~is_excluded(scan_config, p)
               /\ files[p].len >= scan_config.min_size)
                  => \E i \in 1..Len(unit_items) : unit_items[i].path = p

\* C27: the list a scan returns is sorted by descending size and holds at
\* most 100 items.
C27_SortedAndCapped ==
    upc = "done" =>
        /\ \A i \in 1..(Len(unit_items) - 1) : unit_items[i].size >= unit_items[i + 1].size
        /\ Len(unit_items) <= 100

(***************************************************************************)
(* Directory-usage explorer: the worker pool                               *)
(***************************************************************************)
\* C28 as stated: in every state the active-worker counter equals the
\* number of workers of the bucket that hold a job.
C28_CounterEqualsRunning == active_threads = Cardinality(lworkers)

\* C28 (amended): the active-worker counter equals the number of workers
\* that have taken a job, have added 1 to the counter and have not finished
\* the job; it never exceeds the number of workers holding a job, which
\* never exceeds the bucket size, and it is 0 whenever no worker holds a job.
C28_CounterTracksWorkers ==
    /\ active_threads = Cardinality({j \in lworkers : j.pc # "taken"})
    /\ active_threads <= Cardinality(lworkers)
    /\ Cardinality(lworkers) <= DEFAULT_POOL_SIZE
    /\ lworkers = {} => active_threads = 0

\* The four workers of the bucket are counted and a fifth job waits.
C28_Witness ==
    /\ active_threads = DEFAULT_POOL_SIZE
    /\ ljobq # <<>>

\* The jobs of the scanner pool: each scanner of a session is waiting to be
\* submitted, or in the queue, or held by one worker, or counted as
\* finished, and in one of these places only.
ScanJobsOnce ==
    /\ \A s \in 1..MaxSessions :
          Len(sup[s].scanners) =
              Len(sup[s].todo)
                + Cardinality({k \in 1..Len(jobq) : jobq[k].session = s})
                + Cardinality({j \in running : j.session = s})
                + completed[s]
    /\ \A k1, k2 \in 1..Len(jobq) : jobq[k1] = jobq[k2] => k1 = k2
    /\ \A k \in 1..Len(jobq) : \A j \in running :
          ~(j.session = jobq[k].session /\ j.scanner = jobq[k].scanner)
    /\ Cardinality(running) <= DEFAULT_POOL_SIZE

\* The jobs of the directory-usage pool: every live sender of a channel
\* belongs to one job, which is in the queue or held by one worker.
LensJobsOnce ==
    /\ \A id \in 1..Len(lchans) :
          lchans[id].senders =
              Cardinality({k \in 1..Len(ljobq) : ljobq[k].chan = id})
                + Cardinality({j \in lworkers : j.chan = id})
                + Cardinality({t \in lthreads : t.chan = id})
    /\ \A k1, k2 \in 1..Len(ljobq) : ljobq[k1] = ljobq[k2] => k1 = k2
    /\ \A k \in 1..Len(ljobq) : \A j \in lworkers :
          ~(j.chan = ljobq[k].chan /\ j.path = ljobq[k].path)
    /\ Cardinality(lworkers) <= DEFAULT_POOL_SIZE

\* C29: in both pools a submitted job is in the queue or with exactly one
\* worker until it is finished, never twice and never lost; at most n workers
\* hold a job; and each queue, which only workers take from, is eventually
\* empty again, so every submitted job is eventually taken by a worker.
C29_JobsRunOnce ==
    /\ [](ScanJobsOnce /\ LensJobsOnce)
    /\ (jobq # <<>>) ~> (jobq = <<>>)
    /\ (ljobq # <<>>) ~> (ljobq = <<>>)

\* Four jobs of the directory-usage pool run at once while a fifth waits,
\* after four scanner jobs had run at once while a fifth was submitted.
C29_Witness ==
    /\ waited
    /\ Cardinality({j \in lworkers : j.pc # "taken"}) = DEFAULT_POOL_SIZE
    /\ ljobq # <<>>

\* Finding x is in the category of the report whose scanner_id is sid.
InCategory(rep, sid, x) ==
    /\ rep # NoReport
    /\ \E k \in 1..Len(rep.categories) :
          /\ rep.categories[k].scanner_id = sid
          /\ \E i \in 1..Len(rep.categories[k].items) :
                rep.categories[k].items[i].id = x

\* The scanners of the session whose ScanComplete the consumer processed.
ScannersOf(s) == {sup[s].scanners[k] : k \in 1..Len(sup[s].scanners)}

\* The poll in which the consumer processes ScanComplete of its session.
ProcessesComplete == ~rcvLog.complete /\ rcvLog'.complete

\* C30: when the consumer has processed ScanComplete of a session, every
\* Finding accepted by the scan of a scanner of that session is in the
\* report, in the category that carries that scanner's identity.
C30_AcceptedInReport ==
    [][ProcessesComplete =>
          \A id \in ScannersOf(rcvLog'.session) :
              \A x \in accepted'[rcvLog'.session][id] :
                  InCategory(report', ScannerId(id), x.id)]_vars

(***************************************************************************)
(* Directory-usage explorer: snapshots, loading flag and totals            *)
(***************************************************************************)
\* C31: every snapshot stored with was_loading = false is final: none of
\* its entries has scanning = true.
C31_FinalSnapshotsAreFinal ==
    \A p \in LensPaths :
        (cache[p] # NoCache /\ ~cache[p].was_loading) =>
            \A i \in 1..Len(cache[p].entries) : ~cache[p].entries[i].scanning

\* C32: while loading is true a scan of the current directory is pending,
\* so that a poll can set loading to false when its channel closes.
C32_LoadingHasPendingScan ==
    loading => pending_scans[current_path] # 0

\* C33: total_size is the sum of the sizes of the entries of the listing.
C33_TotalIsSum == lens_total_size = SumEntrySizes(entries)

\* In /C the user has deleted f1 while f2, already sized, stays listed.
C33_Witness ==
    /\ current_path = "/C"
    /\ stayed.deleted = {"/C/f1"}
    /\ delete_mode = "ShowResult"
    /\ Len(entries) = 1
    /\ entries[1].path = "/C/f2"
    /\ lens_total_size = FileLen("/C/f2")

\* The paths of a listing.
PathsOfEntries(ents) == {ents[i].path : i \in 1..Len(ents)}

\* C34: when the last key was 'r' and loading is false again, the listing
\* holds exactly one entry for every child of the directory.
C34_RescanListsEveryChild ==
    (/\ mode = "SpaceLens"
     /\ hist # <<>>
     /\ hist[Len(hist)] = "r"
     /\ ~loading)
        => /\ PathsOfEntries(entries) = {LiveDir(current_path)[k] : k \in 1..Len(LiveDir(current_path))}
           /\ Len(entries) = Len(LiveDir(current_path))

\* C35: a confirmed delete removes the entry from the listing, makes
\* total_size the sum of the remaining entries and drops the snapshot of the
\* current directory; and the entry stays out of the listing until
\* start_space_scan runs again.
C35_DeletedStaysAbsent ==
    /\ [][LensConfirmYes =>
            /\ pending_delete.path \notin PathsOfEntries(entries')
            /\ lens_total_size' = SumEntrySizes(entries')
            /\ cache'[current_path] = NoCache]_vars
    /\ [](\A p \in stayed.deleted : p \notin PathsOfEntries(entries))

(***************************************************************************)
(* Category scan: sessions                                                 *)
(***************************************************************************)
\* The ScannerDone messages sent so far by the workers of session s.
DoneSent(s) ==
    completed[s] + Cardinality({j \in running : j.session = s /\ j.pc = "sent"})

\* The Findings the report holds for the scanner identity sid.
Held(rep, sid) ==
    IF rep = NoReport \/ FindCat(rep.categories, sid) = 0 THEN 0
    ELSE Len(rep.categories[FindCat(rep.categories, sid)].items)

\* C36: whatever the jobs of an earlier session still send, the progress
\* counters and the report show the latest session only: no more
\* ScannerDone than its workers have sent, no more Findings of one of its
\* scanners than that scanner's scan of this session has accepted, and
\* ScanComplete only once its own supervisory thread has sent it.
C36_EarlierSessionNeverApplied ==
    rcvLog.session >= 1 =>
        /\ scan_progress.scanners_done <= DoneSent(rcvLog.session)
        /\ \A id \in ScannersOf(rcvLog.session) :
              Held(report, id) <= Cardinality(accepted[rcvLog.session][id])
        /\ rcvLog.complete => sup[rcvLog.session].pc = "done"

\* A job of the first session has reported a Finding and sent ScannerDone
\* after the second session took over the channel, and the second session
\* has completed.
C36_Witness ==
    /\ rcvLog.session = 2
    /\ rcvLog.complete
    /\ \E j \in running : j.session = 1 /\ j.pc = "sent" /\ j.found = 1

(***************************************************************************)
(* Scanner units: streamed and returned Findings                           *)
(***************************************************************************)
\* C37: when a scan has returned, every Finding it passed to report_item
\* is a Finding of the list it returned, and the development-junk scan
\* has passed no more Findings than its cap.
C37_StreamedAreReturned ==
    upc = "done" =>
        /\ \A i \in 1..Len(streamed) :
              \E j \in 1..Len(unit_items) : unit_items[j] = streamed[i]
        /\ unit = "dev_junk" => Len(streamed) <= DEV_CAP

C39_CleanedWereSelected ==
    [][CleanConfirmYes =>
          \A k \in 1..Len(items') :
              \E x \in chosen : x.id = items'[k].id /\ x.path = items'[k].path]_vars

====
